---------------------------- MODULE Spec2Model ----------------------------
(***************************************************************************)
(* A model of the ScanSnap network client (mzyy94/AirScap).                *)
(*                                                                         *)
(*   Spec       the Scanner facade: pair / discover / connect / scan /     *)
(*              disconnect, the control-channel RPCs they issue, and the   *)
(*              heartbeat task that runs beside them.                      *)
(*   ScanSpec   DataChannel.run_scan and Scanner.scan: one scan run on one *)
(*              long-lived data-channel connection.                        *)
(*   CodecSpec  ScanConfig.pack / ScanConfig.unpack on every legal         *)
(*              configuration.                                             *)
(*   WireSpec   the pack() of every request class of packets.py.           *)
(*   IdentitySpec  Scanner.compute_identity on passwords of every length up *)
(*              to past the key's.                                         *)
(*   FindSpec   ScanSnapDiscovery.find_scanner and the datagrams its        *)
(*              protocol receives.                                         *)
(*                                                                         *)
(* Byte strings are functions on 0..n-1 so that offsets read as they do in *)
(* the source.                                                             *)
(***************************************************************************)
EXTENDS Integers, Sequences, FiniteSets, TLC

VARIABLES
    \* ---- Scanner facade (scanner.py, session.py, discovery.py) ----
    pc,          \* position of the foreground task
    op,          \* the facade operation running, or the last one run
    discovered,  \* Scanner._discovered
    connected,   \* Scanner._connected
    hbTask,      \* ScanSnapDiscovery._heartbeat_task (0 = None, else a task id)
    hbSock,      \* ScanSnapDiscovery._heartbeat_sock (0 = None, else a socket id)
    tasks,       \* every heartbeat task ever created: id -> its state
    socks,       \* every heartbeat socket ever created: id -> its state
    beats,       \* heartbeat datagrams sent so far (capped)
    reserved,    \* the appliance holds a reservation for this client
    rstatus,     \* signed status of the Reserve response read by this operation
    steps,       \* what the running operation put on the wire, in order
    inflight,    \* the request written whose response is not read yet
    attempt,     \* loop variable of _data_request_with_retry
    err,         \* the error that reached the caller of the last operation
    relErr,      \* the error ControlSession.deregister raised in disconnect()
    self_token,  \* Scanner.token (<<>> while no Scanner exists)
    sentTok,     \* the token fields of every packet sent so far, on any channel
    data_port,   \* Scanner.data_port
    control_port,\* ControlSession.port of Scanner._control
    advertised,  \* the ports of the Device-Info datagram of the last discovery
    tcpPorts,    \* <<channel, port>> of every TCP connection the running
                 \* operation has opened
    probe,       \* the _data_request_with_retry call running or just over:
                 \* attempts made, seconds slept, last error, how it ended
    \* ---- scan run (data.py, Scanner.scan) ----
    spc,         \* position inside run_scan / scan
    cfgDuplex,   \* config.duplex
    cfgBleed,    \* config.bleed_through
    physical_sheet,
    transfer_sheet,
    side_idx,
    chunk,
    jpeg_buf,
    pages,       \* run_scan's list of (sheet, side, data)
    returned,    \* what Scanner.scan returned
    exc,         \* the exception in flight / raised to the caller of scan()
    lastReq,     \* the last request written on the scan connection
    awaiting,    \* a request was written and its response is not read yet
    conn,        \* the scan connection: "none", "open", "closed"
    endSent,     \* an End-scan request was written on the connection
    endFailed,   \* the End-scan request raised an error
    link,        \* the transport under the scan connection: "up", "eof", "reset"
    rxChunks,    \* <<page-type, payload>> of every chunk received for the side in transfer
    dcall,       \* the DataChannel method running: "run_scan" or a single-shot one
    onPage,      \* run_scan was given an on_page callback (scan_to_files)
    called,      \* the arguments of every on_page call, in order
    owed,        \* requests written on the connection whose response was not
                 \* read in full
    opened,      \* TCP connections the call has opened
    sent,        \* the kinds of the requests written on the connection
    metaSent,    \* page-metadata requests written
    lastResp,    \* what the last read on the connection found
    \* ---- codec (packets.py) ----
    cpc,         \* position of the codec run: "new", "packed", "unpacked"
    cfg,         \* the ScanConfig being encoded
    tok,         \* the session token passed to pack
    packet,      \* the bytes ScanConfig.pack returned
    decoded,     \* the ScanConfig that ScanConfig.unpack returned
    \* ---- request builders (packets.py) ----
    wpc,         \* position of the builder run: "new", "encoded"
    wreq,        \* the request object whose pack() is called
    wire,        \* the bytes pack() returned
    \* ---- identity derivation (Scanner.compute_identity) ----
    ipc,         \* position of the call: "new", "returned", "raised", "packed"
    id_password, \* the password passed in, as character codes
    id_result,   \* the string returned, as character codes (<<>> if none)
    id_err,      \* the error raised, or "none"
    id_wire,     \* the Reserve request packed with the identity returned
    \* ---- discovery (ScanSnapDiscovery.find_scanner, _DiscoveryProtocol) ----
    fpc,         \* position of find_scanner
    f_sock,      \* the UDP socket find_scanner creates: "none", "open", "closed"
    f_future,    \* the future of the protocol: <<>> pending, <<info>> resolved
    f_rx,        \* the datagrams delivered to datagram_received, in order
    f_result,    \* what find_scanner returned (<<>> if nothing)
    f_err,       \* the error find_scanner raised, or "none"
    f_ip,        \* the scanner_ip argument (<<>> when none is given)
    f_local,     \* ScanSnapDiscovery.local_ip
    f_token,     \* the token of the discovery
    f_sent,      \* the datagrams sent, in order: target and bytes
    \* ---- decoding of what the appliance sends (packets.py, session.py) ----
    upc,         \* position of the call: "new", "done"
    u_kind,      \* the decoder called
    u_data,      \* the bytes passed to it
    u_out        \* what the call produced: a value or the error raised

facadeVars == <<pc, op, discovered, connected, hbTask, hbSock, tasks, socks,
                beats, reserved, rstatus, steps, inflight, attempt, err, relErr,
                self_token, sentTok, data_port, control_port, advertised, tcpPorts,
                probe>>
sessVars == <<self_token, sentTok, data_port, control_port, advertised, tcpPorts,
              probe>>
scanVars == <<spc, cfgDuplex, cfgBleed, physical_sheet, transfer_sheet, side_idx,
              chunk, jpeg_buf, pages, returned, exc, lastReq, awaiting, conn,
              endSent, endFailed, link, rxChunks, dcall, onPage, called, owed,
              opened, sent, metaSent, lastResp>>
codecVars == <<cpc, cfg, tok, packet, decoded>>
wireVars == <<wpc, wreq, wire>>
idVars == <<ipc, id_password, id_result, id_err, id_wire>>
findVars == <<fpc, f_sock, f_future, f_rx, f_result, f_err, f_ip, f_local, f_token, f_sent>>
unpackVars == <<upc, u_kind, u_data, u_out>>
utilVars == <<wireVars, idVars, findVars, unpackVars>>
vars == <<facadeVars, scanVars, codecVars, utilVars>>

-----------------------------------------------------------------------------
(* Bounds of the model *)

\* heartbeat tasks one Scanner may create (start_heartbeat calls)
MaxTasks == 2
\* heartbeat datagrams counted
MaxBeats == 1
\* physical sheets the feeder holds in one scan run
MaxSheets == 2
\* chunks the appliance splits one side into
MaxChunks == 2

-----------------------------------------------------------------------------
(* Helpers shared by all parts *)

\* struct.unpack_from("!i", resp, 8): four big-endian bytes as a signed 32-bit
\* integer (two's complement)
Signed32(b) ==
    IF b[1] >= 128
    THEN -(((255 - b[1]) * 16777216) + ((255 - b[2]) * 65536)
           + ((255 - b[3]) * 256) + (255 - b[4]) + 1)
    ELSE (b[1] * 16777216) + (b[2] * 65536) + (b[3] * 256) + b[4]

\* the status words the appliance answers a Reserve with in this model
StatusWords == { <<0, 0, 0, 0>>, <<0, 0, 0, 1>>, <<255, 255, 255, 255>> }

\* except (ConnectionError, OSError)
IsConnErr(e) == e \in {"ConnectionError", "OSError"}


-----------------------------------------------------------------------------
(* Packet codec: packets.py *)

\* ColorMode
AUTO == 0
COLOR == 1
GRAY == 2
BW == 3
\* PaperSize (AUTO is 0 as well)
A4 == 1
A5 == 2
BUSINESS_CARD == 3
POSTCARD == 4

\* _QUALITY_DPI
QualityDpi == [q \in 0..3 |-> CASE q = 0 -> 0 [] q = 1 -> 150 [] q = 2 -> 200 [] q = 3 -> 300]

\* PAPER_DIMENSIONS, in 1/1200 inch: <<width, height>>
PaperDimensions ==
    [ps \in 0..4 |-> CASE ps = 0 -> <<10448, 17828>>
                       [] ps = 1 -> <<9936, 14032>>
                       [] ps = 2 -> <<6992, 9920>>
                       [] ps = 3 -> <<10448, 4724>>
                       [] ps = 4 -> <<4736, 6992>>]

\* every legal ScanConfig
LegalConfigs ==
    [color_mode : 0..3, quality : 0..3, duplex : BOOLEAN, bleed_through : BOOLEAN,
     paper_size : 0..4, bw_density : 0..10, multi_feed : BOOLEAN,
     blank_page_removal : BOOLEAN]

\* the session tokens of the model: six bytes and two zero bytes
Tokens == { <<17, 34, 51, 68, 85, 102, 0, 0>>, <<1, 2, 3, 4, 5, 6, 0, 0>> }

\* bytearray(n)
Zeros(n) == [i \in 0..(n - 1) |-> 0]

\* struct.pack("!H", v)
U16(v) == <<(v \div 256) % 256, v % 256>>

\* struct.pack("!I", v) for v below 2^31
U32(v) == <<(v \div 16777216) % 256, (v \div 65536) % 256, (v \div 256) % 256, v % 256>>

\* struct.pack("!I", b << 24) for a byte b
U32Shl24(b) == <<b, 0, 0, 0>>

\* struct.unpack_from("!H", data, off)
GetU16(data, off) == (data[off] * 256) + data[off + 1]

\* data[a:b] as a sequence
Slice(data, a, b) == [i \in 1..(b - a) |-> data[a + i - 1]]

\* the third byte of the colour encoding: 0x09 for POSTCARD, else 0x0B
ColorEncTail(c) == IF c.paper_size = POSTCARD THEN 9 ELSE 11

\* a config block that is long whenever the scan is duplex
ConfigSize_DuplexOnly(c) == IF c.duplex THEN 128 ELSE 80

\* config_size = 0x50; if self.duplex and is_full_auto: config_size = 0x80
ConfigSize(c) ==
    IF c.duplex /\ (c.color_mode = AUTO /\ c.quality = AUTO) THEN 128 ELSE 80

\* a density byte without the 0x06 base
DensityByte_Raw(c) == IF c.color_mode = BW THEN c.bw_density ELSE 0

\* if is_bw: buf[c + 60] = 0x06 + self.bw_density
DensityByte(c) == IF c.color_mode = BW THEN 6 + c.bw_density ELSE 0

\* ScanConfig.pack: the Set-scan-settings packet (cmd 0x06, sub 0xD4); every
\* assignment into buf is one clause, in the order of the source
ScanConfigPack(c, token) ==
    LET is_bw == c.color_mode = BW
        is_gray == c.color_mode = GRAY
        is_auto_color == c.color_mode = AUTO
        is_auto_quality == c.quality = AUTO
        is_full_auto == is_auto_color /\ is_auto_quality
        dpi == QualityDpi[c.quality]
        w == PaperDimensions[c.paper_size][1]
        h == PaperDimensions[c.paper_size][2]
        config_size == ConfigSize(c)
        total == 64 + config_size
        b == 64
        bc == b + 80
        color_enc == IF is_gray THEN <<2, 130, ColorEncTail(c)>>
                     ELSE IF is_bw THEN <<0, 3, 0>>
                     ELSE <<5, 130, ColorEncTail(c)>>
        front ==
            [Zeros(total) EXCEPT
                \* struct.pack_into("!I", buf, 0, total)
                ![0] = U32(total)[1], ![1] = U32(total)[2],
                ![2] = U32(total)[3], ![3] = U32(total)[4],
                \* buf[4:8] = MAGIC
                ![4] = 86, ![5] = 69, ![6] = 78, ![7] = 83,
                \* direction = client
                ![8] = U32(1)[1], ![9] = U32(1)[2], ![10] = U32(1)[3], ![11] = U32(1)[4],
                \* buf[16:24] = token
                ![16] = token[1], ![17] = token[2], ![18] = token[3], ![19] = token[4],
                ![20] = token[5], ![21] = token[6], ![22] = token[7], ![23] = token[8],
                \* DataCommand.GET_SET
                ![32] = U32(6)[1], ![33] = U32(6)[2], ![34] = U32(6)[3], ![35] = U32(6)[4],
                \* config_size at +40
                ![40] = U32(config_size)[1], ![41] = U32(config_size)[2],
                ![42] = U32(config_size)[3], ![43] = U32(config_size)[4],
                \* sub-command 0xD4000000
                ![48] = U32Shl24(212)[1], ![49] = U32Shl24(212)[2],
                ![50] = U32Shl24(212)[3], ![51] = U32Shl24(212)[4],
                \* config_size << 24
                ![52] = U32Shl24(config_size)[1], ![53] = U32Shl24(config_size)[2],
                ![54] = U32Shl24(config_size)[3], ![55] = U32Shl24(config_size)[4],
                \* +1: duplex
                ![b + 1] = IF c.duplex THEN 3 ELSE 1,
                \* +2, +5: full auto flags
                ![b + 2] = IF is_full_auto THEN 1 ELSE 0,
                ![b + 5] = IF is_full_auto THEN 1 ELSE 0,
                \* +3: BW density flag (left 0 when neither branch is taken)
                ![b + 3] = IF is_bw /\ c.bw_density = 0 THEN 2
                           ELSE IF is_full_auto THEN 1 ELSE 0,
                \* +4, +6: multi-feed detection
                ![b + 4] = IF c.multi_feed THEN 208 ELSE 128,
                ![b + 6] = IF c.multi_feed THEN 193 ELSE 192,
                \* +7: auto color flag
                ![b + 7] = IF is_auto_color /\ is_auto_quality THEN 193 ELSE 128,
                \* +8: blank page removal
                ![b + 8] = IF c.blank_page_removal THEN 224 ELSE 128,
                \* +9: constant
                ![b + 9] = 200,
                \* +10: auto quality
                ![b + 10] = IF is_auto_quality THEN 160 ELSE 128,
                \* +11: bleed-through
                ![b + 11] = IF c.bleed_through THEN 192 ELSE 128,
                \* +12: constant
                ![b + 12] = 128,
                \* front side params
                ![b + 31] = 48,
                ![b + 33] = IF is_bw THEN 64 ELSE 16,
                ![b + 34] = U16(dpi)[1], ![b + 35] = U16(dpi)[2],
                ![b + 36] = U16(dpi)[1], ![b + 37] = U16(dpi)[2],
                \* +38-40: color encoding
                ![b + 38] = color_enc[1], ![b + 39] = color_enc[2], ![b + 40] = color_enc[3],
                \* +44-45, +48-49: paper size
                ![b + 44] = U16(w)[1], ![b + 45] = U16(w)[2],
                ![b + 48] = U16(h)[1], ![b + 49] = U16(h)[2],
                \* +50: constant
                ![b + 50] = 4,
                \* +54-56: constants
                ![b + 54] = 1, ![b + 55] = 1, ![b + 56] = 1,
                \* +57: BW flag
                ![b + 57] = IF is_bw THEN 1 ELSE 0,
                \* +60: BW density value (left 0 when not BW)
                ![b + 60] = DensityByte(c)]
        \* back side params, only in the 128-byte block
        back ==
            [front EXCEPT
                ![bc] = 1,
                ![bc + 1] = 16,
                ![bc + 2] = U16(dpi)[1], ![bc + 3] = U16(dpi)[2],
                ![bc + 4] = U16(dpi)[1], ![bc + 5] = U16(dpi)[2],
                ![bc + 6] = 2, ![bc + 7] = 130, ![bc + 8] = 11,
                ![bc + 12] = U16(w)[1], ![bc + 13] = U16(w)[2],
                ![bc + 16] = U16(h)[1], ![bc + 17] = U16(h)[2],
                ![bc + 18] = 4,
                ![bc + 22] = 1, ![bc + 23] = 1, ![bc + 24] = 1]
    IN IF config_size = 128 THEN back ELSE front

\* the config block of a Set-scan-settings packet: the bytes from +64 on
ConfigBlock(pkt) == [i \in 0..(Cardinality(DOMAIN pkt) - 65) |-> pkt[i + 64]]

\* the first quality whose DPI is dpi, AUTO when there is none
QualityOfDpi(dpi) ==
    IF \E q \in 0..3 : QualityDpi[q] = dpi
    THEN CHOOSE q \in 0..3 : QualityDpi[q] = dpi /\ \A r \in 0..(q - 1) : QualityDpi[r] # dpi
    ELSE AUTO

\* the first paper size with these dimensions, AUTO when there is none
PaperOfDims(w, h) ==
    IF \E ps \in 0..4 : PaperDimensions[ps] = <<w, h>>
    THEN CHOOSE ps \in 0..4 : /\ PaperDimensions[ps] = <<w, h>>
                              /\ \A r \in 0..(ps - 1) : PaperDimensions[r] # <<w, h>>
    ELSE AUTO

\* the colour mode ScanConfig.unpack reads from the block
ColorOfBlock(data) ==
    LET color_enc == Slice(data, 38, 41) IN
    IF color_enc = <<2, 130, 11>> THEN GRAY
    ELSE IF color_enc = <<0, 3, 0>> THEN BW
    ELSE IF data[7] = 193 /\ data[10] = 160 THEN AUTO
    ELSE COLOR

\* ScanConfig.unpack
ScanConfigUnpack(data) ==
    LET color_mode == ColorOfBlock(data)
        d == data[60] - 6
    IN [color_mode |-> color_mode,
        quality |-> QualityOfDpi(GetU16(data, 34)),
        duplex |-> (data[1] = 3),
        bleed_through |-> (data[11] = 192),
        paper_size |-> PaperOfDims(GetU16(data, 44), GetU16(data, 48)),
        bw_density |-> IF color_mode = BW THEN (IF d > 0 THEN d ELSE 0) ELSE 0,
        multi_feed |-> (data[4] = 208),
        blank_page_removal |-> (data[8] = 224)]

CodecOff ==
    /\ cpc = "off"
    /\ cfg = <<>>
    /\ tok = <<>>
    /\ packet = <<>>
    /\ decoded = <<>>

\* any legal configuration and any token
CodecInit ==
    /\ cpc = "new"
    /\ cfg \in LegalConfigs
    /\ tok \in Tokens
    /\ packet = <<>>
    /\ decoded = <<>>

\* config.pack(token)
Pack ==
    /\ cpc = "new"
    /\ packet' = ScanConfigPack(cfg, tok)
    /\ cpc' = "packed"
    /\ UNCHANGED <<cfg, tok, decoded>>
    /\ UNCHANGED <<facadeVars, scanVars, utilVars>>

\* ScanConfig.unpack on the config block of the packet
Unpack ==
    /\ cpc = "packed"
    /\ decoded' = ScanConfigUnpack(ConfigBlock(packet))
    /\ cpc' = "unpacked"
    /\ UNCHANGED <<cfg, tok, packet>>
    /\ UNCHANGED <<facadeVars, scanVars, utilVars>>

CodecNext ==
    \/ Pack
    \/ Unpack

-----------------------------------------------------------------------------
(* Request builders: packets.py *)

\* len(buf) of a byte string held as a function on 0..n-1
BLen(buf) == Cardinality(DOMAIN buf)

\* struct.pack_into(fmt, buf, off, ...): the packed bytes s overwrite
\* buf[off : off + len(s)]
PutAt(buf, off, s) ==
    [i \in DOMAIN buf |-> IF i >= off /\ i < off + Len(s) THEN s[(i - off) + 1] ELSE buf[i]]

\* buf[a:b] = s on a bytearray: the slice is replaced, and the buffer grows or
\* shrinks when len(s) differs from b - a
PutSlice(buf, a, b, s) ==
    LET n == BLen(buf)
        lo == IF a < n THEN a ELSE n
        hi == IF b < lo THEN lo ELSE IF b < n THEN b ELSE n
        m == (n - (hi - lo)) + Len(s)
    IN [i \in 0..(m - 1) |->
            IF i < lo THEN buf[i]
            ELSE IF i < lo + Len(s) THEN s[(i - lo) + 1]
            ELSE buf[(i - Len(s)) + (hi - lo)]]

\* struct.unpack_from("!I", data, off) for values below 2^31
GetU32(data, off) ==
    (data[off] * 16777216) + (data[off + 1] * 65536) + (data[off + 2] * 256) + data[off + 3]

\* MAGIC = b"VENS"
MAGIC == <<86, 69, 78, 83>>

\* four zero bytes: struct.pack("!I", 0)
Z4 == <<0, 0, 0, 0>>

RECURSIVE Str(_)
\* str(n).encode("ascii") for n >= 0
Str(n) == IF n < 10 THEN <<48 + n>> ELSE Str(n \div 10) \o <<48 + (n % 10)>>

\* ControlCommand and DataCommand
REGISTER == 18
CONFIGURE == 17
STATUS == 48
GET_SET == 6
CONFIG == 8
GET_STATUS == 10
PAGE_TRANSFER == 12
CLIENT_NOTIFY_PORT == 55265
DEFAULT_DATA_PORT == 53218
DEFAULT_CONTROL_PORT == 53219
CLIENT_DISCOVERY_PORT == 55264

\* RegisterRequest.pack
RegisterRequestPack(token, action) ==
    LET b0 == Zeros(32)
        b1 == PutAt(b0, 0, U32(32))
        b2 == PutSlice(b1, 4, 8, MAGIC)
        b3 == PutAt(b2, 8, U32(REGISTER))
        b4 == PutAt(b3, 12, U32(0))
        b5 == PutSlice(b4, 16, 24, token)
    IN PutAt(b5, 24, U32(action))

\* the first 44 bytes of the identity, or of the digits of the client address
\* when the identity is empty
IdStr(client_ip, identity) ==
    LET id_str == IF identity # <<>> THEN identity
                  ELSE Str(client_ip[1]) \o Str(client_ip[2]) \o Str(client_ip[3]) \o Str(client_ip[4])
    IN SubSeq(id_str, 1, IF Len(id_str) < 44 THEN Len(id_str) ELSE 44)

\* ConfigureRequest.pack; ts is <<year, month, day, hour, minute, second>>
ConfigureRequestPack(token, client_ip, notify_port, identity, ts) ==
    LET b0 == Zeros(384)
        b1 == PutAt(b0, 0, U32(384))
        b2 == PutSlice(b1, 4, 8, MAGIC)
        b3 == PutAt(b2, 8, U32(CONFIGURE))
        b4 == PutAt(b3, 12, U32(0))
        b5 == PutSlice(b4, 16, 24, token)
        b6 == PutAt(b5, 32, <<0, 4, 5, 0>>)
        b7 == PutAt(b6, 36, U32(1))
        b8 == PutAt(b7, 40, U32(1))
        b9 == PutSlice(b8, 44, 48, client_ip)
        b10 == PutAt(b9, 48, U16(0))
        b11 == PutAt(b10, 50, U16(notify_port))
        ids == IdStr(client_ip, identity)
        b12 == PutSlice(b11, 52, 52 + Len(ids), ids)
        b13 == PutAt(b12, 100, U16(ts[1]))
        b14 == PutAt(b13, 102, <<ts[2], ts[3], ts[4], ts[5], ts[6]>>)
    IN PutAt(b14, 116, <<255, 255, 129, 112>>)

\* a StatusRequest.pack that leaves bytes 16..24 zero
StatusRequestPack_NoToken(token) ==
    LET b0 == Zeros(32)
        b1 == PutAt(b0, 0, U32(32))
        b2 == PutSlice(b1, 4, 8, MAGIC)
    IN PutAt(b2, 8, U32(STATUS))

\* StatusRequest.pack
StatusRequestPack(token) ==
    LET b0 == Zeros(32)
        b1 == PutAt(b0, 0, U32(32))
        b2 == PutSlice(b1, 4, 8, MAGIC)
        b3 == PutAt(b2, 8, U32(STATUS))
    IN PutSlice(b3, 16, 24, token)

\* a total that leaves the command word out
DataTotal_NoCommand(params) == 32 + Len(params)

\* the length DataRequest.pack allocates and writes at +0:
\* header(32) + command(4) + params
DataTotal(params) == (32 + 4) + Len(params)

\* DataRequest.pack(params)
DataRequestPack(token, command, params) ==
    LET total == DataTotal(params)
        b0 == Zeros(total)
        b1 == PutAt(b0, 0, U32(total))
        b2 == PutSlice(b1, 4, 8, MAGIC)
        b3 == PutAt(b2, 8, U32(1))
        b4 == PutAt(b3, 12, U32(0))
        b5 == PutSlice(b4, 16, 24, token)
        b6 == PutAt(b5, 32, U32(command))
    IN IF params # <<>> THEN PutSlice(b6, 36, 36 + Len(params), params) ELSE b6

\* the parameter words of the data-channel request classes
GetDeviceInfoParams == <<0, 0, 0, 96>> \o Z4 \o Z4 \o <<18, 0, 0, 0>> \o <<96, 0, 0, 0>> \o Z4 \o Z4
GetScanSettingsParams == Z4 \o Z4 \o Z4 \o <<216, 0, 0, 0>> \o Z4 \o Z4 \o Z4
GetScanParamsParams == <<0, 0, 0, 144>> \o Z4 \o Z4 \o <<18, 1, 240, 0>> \o <<144, 0, 0, 0>> \o Z4 \o Z4
ConfigParams == Z4 \o <<0, 0, 0, 4>> \o Z4 \o <<235, 0, 0, 0>> \o <<0, 4, 0, 0>> \o Z4 \o Z4 \o <<5, 1, 0, 0>>
GetStatusParams == <<0, 0, 0, 32>> \o Z4 \o Z4 \o <<194, 0, 0, 0>> \o Z4 \o <<32, 0, 0, 0>> \o Z4
PrepareScanParams == <<0, 0, 0, 8>> \o <<0, 0, 0, 8>> \o Z4 \o <<213, 0, 0, 0>> \o <<8, 8, 0, 0>> \o Z4 \o Z4 \o Z4 \o Z4
WaitForScanParams == Z4 \o Z4 \o Z4 \o <<224, 0, 0, 0>> \o Z4 \o Z4 \o Z4
GetPageMetadataParams == <<0, 0, 0, 18>> \o Z4 \o Z4 \o <<3, 0, 0, 0>> \o <<18, 0, 0, 0>> \o Z4 \o Z4

\* page parameters whose flags never mark an odd sheet
PageTransferParams_EvenFlags(page_num, sheet) ==
    <<0, 4, 0, 0>> \o Z4 \o Z4 \o <<40, 0, 0, 2>> \o <<0, 0, 4, 0>> \o U32(page_num) \o Z4

\* PageTransferRequest.pack: page_flags 0x00800400 for an odd sheet
PageTransferParams(page_num, sheet) ==
    LET page_flags == IF sheet % 2 = 1 THEN <<0, 128, 4, 0>> ELSE <<0, 0, 4, 0>>
    IN <<0, 4, 0, 0>> \o Z4 \o Z4 \o <<40, 0, 0, 2>> \o page_flags \o U32(page_num) \o Z4

\* the page number of PageTransferRequest(sheet=, chunk=, back_side=), the
\* form in which _transfer_page_chunks builds the request:
\* (sheet << 8) | chunk_index, for a chunk index below 256
PageNum(sheet, chunk_index) == (sheet * 256) + chunk_index

\* the request classes that build their packet with DataRequest.pack
DataKinds ==
    {"GetDeviceInfo", "GetScanSettings", "GetScanParams", "Config", "GetStatus",
     "PrepareScan", "WaitForScan", "PageTransfer", "GetPageMetadata"}

\* <<command, params>> of a data-channel request
DataParts(r) ==
    CASE r.kind = "GetDeviceInfo" -> <<GET_SET, GetDeviceInfoParams>>
      [] r.kind = "GetScanSettings" -> <<GET_SET, GetScanSettingsParams>>
      [] r.kind = "GetScanParams" -> <<GET_SET, GetScanParamsParams>>
      [] r.kind = "Config" -> <<CONFIG, ConfigParams>>
      [] r.kind = "GetStatus" -> <<GET_STATUS, GetStatusParams>>
      [] r.kind = "PrepareScan" -> <<GET_SET, PrepareScanParams>>
      [] r.kind = "WaitForScan" -> <<GET_SET, WaitForScanParams>>
      [] r.kind = "PageTransfer" -> <<PAGE_TRANSFER, PageTransferParams(r.page_num, r.sheet)>>
      [] r.kind = "GetPageMetadata" -> <<GET_SET, GetPageMetadataParams>>

\* the client address, the timestamp and the identities of the model
ClientIp == <<192, 168, 0, 10>>
Timestamp == <<2026, 11, 6, 12, 30, 59>>
Identities == { <<>>, <<49, 55, 49, 49, 51, 54>>, [i \in 1..50 |-> 48 + (i % 10)] }

\* the configuration of a request that carries none
NoCfg == [color_mode |-> 0, quality |-> 0, duplex |-> FALSE, bleed_through |-> FALSE,
          paper_size |-> 0, bw_density |-> 0, multi_feed |-> FALSE,
          blank_page_removal |-> FALSE]

\* a request object: its class and the fields of it that pack() reads
Req(kind, token, action, identity, page_num, sheet, c) ==
    [kind |-> kind, token |-> token, action |-> action, identity |-> identity,
     page_num |-> page_num, sheet |-> sheet, cfg |-> c]

\* every request object of the model
WireRequests ==
    {Req("Reserve", t, 0, id, 0, 0, NoCfg) : t \in Tokens, id \in Identities}
    \cup {Req("Release", t, a, <<>>, 0, 0, NoCfg) : t \in Tokens, a \in {0, 1}}
    \cup {Req("GetWifiStatus", t, 0, <<>>, 0, 0, NoCfg) : t \in Tokens}
    \cup {Req(k, t, 0, <<>>, 0, 0, NoCfg) : k \in DataKinds \ {"PageTransfer"}, t \in Tokens}
    \cup {Req("PageTransfer", t, 0, <<>>, pn, sh, NoCfg) :
              t \in Tokens, pn \in {0, 1, 256, 257}, sh \in {0, 1}}
    \cup {Req("SetScanSettings", t, 0, <<>>, 0, 0, c) : t \in Tokens, c \in LegalConfigs}

\* req.pack()
Encode(r) ==
    CASE r.kind = "Reserve" ->
            ConfigureRequestPack(r.token, ClientIp, CLIENT_NOTIFY_PORT, r.identity, Timestamp)
      [] r.kind = "Release" -> RegisterRequestPack(r.token, r.action)
      [] r.kind = "GetWifiStatus" -> StatusRequestPack(r.token)
      [] r.kind = "SetScanSettings" -> ScanConfigPack(r.cfg, r.token)
      [] OTHER -> DataRequestPack(r.token, DataParts(r)[1], DataParts(r)[2])

WireOff ==
    /\ wpc = "off"
    /\ wreq = <<>>
    /\ wire = <<>>

WireInit ==
    /\ wpc = "new"
    /\ wreq \in WireRequests
    /\ wire = <<>>

\* one call of pack()
EncodeRequest ==
    /\ wpc = "new"
    /\ wire' = Encode(wreq)
    /\ wpc' = "encoded"
    /\ UNCHANGED wreq
    /\ UNCHANGED <<facadeVars, scanVars, codecVars, idVars, findVars, unpackVars>>

WireNext == EncodeRequest

-----------------------------------------------------------------------------
(* Identity derivation: Scanner.compute_identity *)

\* longest password of free characters the model enumerates
MaxPwLen == 4

\* Scanner._IDENTITY_KEY = "pFusCANsNapFiPfu"
IDENTITY_KEY == <<112, 70, 117, 115, 67, 65, 78, 115, 78, 97, 112, 70, 105, 80, 102, 117>>

\* Scanner._IDENTITY_SHIFT
IDENTITY_SHIFT == 11

\* characters of the enumerated passwords: "0", "7", "z", and U+20AC
PwChars == {48, 55, 122, 8364}

\* passwords around the length of the key; position 6 holds a NUL
LongPasswords ==
    { [i \in 1..n |-> IF i = 6 THEN 0 ELSE 48 + (i % 10)] :
        n \in (Len(IDENTITY_KEY) - 1)..(Len(IDENTITY_KEY) + 2) }

Passwords ==
    UNION { [1..n -> PwChars] : n \in 0..MaxPwLen } \cup LongPasswords

IdentityTerm_NoShift(c, i) == Str(c + IDENTITY_KEY[i])

\* str(ord(c) + ord(key[i]) + cls._IDENTITY_SHIFT)
IdentityTerm(c, i) == Str(c + IDENTITY_KEY[i] + IDENTITY_SHIFT)

\* "".join(... for i, c in enumerate(password))
RECURSIVE JoinFrom(_, _)
JoinFrom(password, i) ==
    IF i > Len(password) THEN <<>>
    ELSE IdentityTerm(password[i], i) \o JoinFrom(password, i + 1)

IdentityOff ==
    /\ ipc = "off"
    /\ id_password = <<>>
    /\ id_result = <<>>
    /\ id_err = "none"
    /\ id_wire = <<>>

IdentityInit ==
    /\ ipc = "new"
    /\ id_password \in Passwords
    /\ id_result = <<>>
    /\ id_err = "none"
    /\ id_wire = <<>>

\* one call of compute_identity
ComputeIdentity ==
    /\ ipc = "new"
    /\ IF Len(id_password) > Len(IDENTITY_KEY)
       THEN /\ ipc' = "raised"
            /\ id_err' = "ValueError: Password too long"
            /\ UNCHANGED id_result
       ELSE /\ ipc' = "returned"
            /\ id_result' = JoinFrom(id_password, 1)
            /\ UNCHANGED id_err
    /\ UNCHANGED <<id_password, id_wire>>
    /\ UNCHANGED <<facadeVars, scanVars, codecVars, wireVars, findVars, unpackVars>>

\* Scanner.pair after compute_identity: try_configure(token, local_ip,
\* CLIENT_NOTIFY_PORT, identity=identity) packs the Reserve request
ReservePack ==
    /\ ipc = "returned"
    /\ \E t \in Tokens :
          id_wire' = ConfigureRequestPack(t, ClientIp, CLIENT_NOTIFY_PORT, id_result, Timestamp)
    /\ ipc' = "packed"
    /\ UNCHANGED <<id_password, id_result, id_err>>
    /\ UNCHANGED <<facadeVars, scanVars, codecVars, wireVars, findVars, unpackVars>>

IdentityNext == ComputeIdentity \/ ReservePack

-----------------------------------------------------------------------------
(* Discovery: ScanSnapDiscovery.find_scanner, _DiscoveryProtocol *)

\* datagrams delivered during one find_scanner
MaxDatagrams == 3

\* DISCOVERY_PORT = 52217
DISCOVERY_PORT == 52217

\* a sequence of bytes as a byte string
FromSeq(q) == [i \in 0..(Len(q) - 1) |-> q[i + 1]]

\* the struct format 8s: cut or zero-padded to eight bytes
Pad8(t) == [i \in 1..8 |-> IF i <= Len(t) THEN t[i] ELSE 0]

\* DiscoveryRequest.pack_vens
DiscoveryPackVens(client_ip, t, client_port, flags) ==
    FromSeq(MAGIC \o U32(flags) \o client_ip \o Pad8(t) \o U16(0) \o U16(client_port)
            \o <<0, 16, 0, 0, 0, 0, 0, 0>>)

\* DiscoveryRequest.pack_ssnr
DiscoveryPackSsnr(client_ip, t, client_port) ==
    FromSeq(<<115, 115, 78, 82>> \o U32(0) \o client_ip \o Pad8(t) \o U16(0) \o U16(client_port)
            \o <<1, 0, 0, 0, 0, 0, 0, 0>>)

\* an appliance address passed to find_scanner
ApplianceIp == <<192, 168, 0, 77>>

\* what _get_local_ip returns: the address of the LAN interface, or
\* "0.0.0.0" when there is none
LocalIps == {<<192, 168, 0, 10>>, <<0, 0, 0, 0>>}

\* a send_discovery that sends the VENS form only
SendDiscovery_VensOnly(scanner_ip, token, local_ip) ==
    <<[to |-> <<scanner_ip, DISCOVERY_PORT>>,
       data |-> DiscoveryPackVens(local_ip, token, CLIENT_DISCOVERY_PORT, 0)]>>

\* _DiscoveryProtocol.send_discovery: the two sendto calls, in order
SendDiscovery(scanner_ip, token, local_ip) ==
    <<[to |-> <<scanner_ip, DISCOVERY_PORT>>,
       data |-> DiscoveryPackVens(local_ip, token, CLIENT_DISCOVERY_PORT, 0)],
      [to |-> <<scanner_ip, DISCOVERY_PORT>>,
       data |-> DiscoveryPackSsnr(local_ip, token, CLIENT_DISCOVERY_PORT)]>>

\* "255.255.255.255"
LimitedBroadcast == <<255, 255, 255, 255>>

\* self.local_ip.rsplit(".", 1)[0] + ".255"
SubnetBroadcast(local_ip) == <<local_ip[1], local_ip[2], local_ip[3], 255>>

\* a datagram of n bytes: four tag bytes, the paired flag at +4, the data
\* port at +22 and the control port at +26 where they fit, zeros elsewhere
Datagram(n, tag, paired, dp, cp) ==
    [i \in 0..(n - 1) |->
        CASE i < 4 -> tag[i + 1]
          [] i = 5 -> paired
          [] i = 22 -> dp \div 256
          [] i = 23 -> dp % 256
          [] i = 26 -> cp \div 256
          [] i = 27 -> cp % 256
          [] OTHER -> 0]

\* "SSNR"
SSNR == <<83, 83, 78, 82>>

\* what the network delivers to the client discovery port
Datagrams ==
    [ack        |-> Datagram(12, MAGIC, 0, 0, 0),
     empty      |-> Datagram(0, MAGIC, 0, 0, 0),
     heartbeat  |-> Datagram(32, MAGIC, 0, 0, 0),
     truncated  |-> Datagram(131, MAGIC, 0, DEFAULT_DATA_PORT, DEFAULT_CONTROL_PORT),
     foreign    |-> Datagram(132, SSNR, 0, DEFAULT_DATA_PORT, DEFAULT_CONTROL_PORT),
     info       |-> Datagram(132, MAGIC, 1, DEFAULT_DATA_PORT, DEFAULT_CONTROL_PORT),
     infoLong   |-> Datagram(136, MAGIC, 0, 40000, 40001)]

DatagramKinds == DOMAIN Datagrams

\* DeviceInfo.unpack: <<>> stands for the ValueError
DeviceInfoUnpack(data) ==
    IF BLen(data) < 132 \/ Slice(data, 0, 4) # MAGIC
    THEN <<>>
    ELSE <<[paired |-> GetU16(data, 4) # 0,
            data_port |-> GetU16(data, 22),
            control_port |-> GetU16(data, 26)]>>

\* if not self._future.done(): self._future.set_result(info)
SetResult(future, info) == IF future = <<>> THEN info ELSE future

\* _DiscoveryProtocol.datagram_received: the future afterwards
Received(future, data) ==
    IF BLen(data) < 20 \/ Slice(data, 0, 4) # MAGIC THEN future
    ELSE IF BLen(data) = 12 THEN future
    ELSE IF BLen(data) >= 132
         THEN IF DeviceInfoUnpack(data) # <<>>
              THEN SetResult(future, DeviceInfoUnpack(data))
              ELSE future
         ELSE future

\* Received on every datagram kind
ReceivedKind ==
    [f \in {<<>>} \cup {DeviceInfoUnpack(Datagrams[k]) : k \in DatagramKinds},
     k \in DatagramKinds |-> Received(f, Datagrams[k])]

FindOff ==
    /\ fpc = "off"
    /\ f_sock = "none"
    /\ f_future = <<>>
    /\ f_rx = <<>>
    /\ f_result = <<>>
    /\ f_err = "none"
    /\ f_ip = <<>>
    /\ f_local = <<>>
    /\ f_token = <<>>
    /\ f_sent = <<>>

FindInit ==
    /\ fpc = "start"
    /\ f_sock = "none"
    /\ f_future = <<>>
    /\ f_rx = <<>>
    /\ f_result = <<>>
    /\ f_err = "none"
    /\ f_ip \in {<<>>, ApplianceIp}
    /\ f_local \in LocalIps
    /\ f_token \in Tokens
    /\ f_sent = <<>>

\* find_scanner up to create_datagram_endpoint: the socket is created, then
\* bound to the client discovery port; bind raises OSError when the port is
\* held by a program that does not share it
FindBind ==
    /\ fpc = "start"
    /\ f_sock' = "open"
    /\ \E bound \in BOOLEAN :
          IF bound
          THEN /\ fpc' = "send"
               /\ UNCHANGED f_err
          ELSE /\ fpc' = "raised"
               /\ f_err' = "OSError"
    /\ UNCHANGED <<f_future, f_rx, f_result>>
    /\ UNCHANGED <<f_ip, f_local, f_token, f_sent>>
    /\ UNCHANGED <<facadeVars, scanVars, codecVars, wireVars, idVars, unpackVars>>

\* if scanner_ip: one send_discovery to it; else one to the limited
\* broadcast and one to the subnet broadcast; then the task waits in
\* asyncio.wait_for
FindSend ==
    /\ fpc = "send"
    /\ fpc' = "waiting"
    /\ f_sent' = IF f_ip # <<>>
                 THEN SendDiscovery(f_ip, f_token, f_local)
                 ELSE SendDiscovery(LimitedBroadcast, f_token, f_local)
                      \o SendDiscovery(SubnetBroadcast(f_local), f_token, f_local)
    /\ UNCHANGED <<f_sock, f_future, f_rx, f_result, f_err, f_ip, f_local, f_token>>
    /\ UNCHANGED <<facadeVars, scanVars, codecVars, wireVars, idVars, unpackVars>>

\* the event loop hands one datagram to the protocol while the task waits
DatagramReceived ==
    /\ fpc = "waiting"
    /\ Len(f_rx) < MaxDatagrams
    /\ \E k \in DatagramKinds :
          /\ f_rx' = Append(f_rx, k)
          /\ f_future' = ReceivedKind[f_future, k]
    /\ UNCHANGED <<fpc, f_sock, f_result, f_err>>
    /\ UNCHANGED <<f_ip, f_local, f_token, f_sent>>
    /\ UNCHANGED <<facadeVars, scanVars, codecVars, wireVars, idVars, unpackVars>>

\* wait_for returns the result of the future; finally: transport.close()
FindReturn ==
    /\ fpc = "waiting"
    /\ f_future # <<>>
    /\ f_result' = f_future
    /\ f_sock' = "closed"
    /\ fpc' = "returned"
    /\ UNCHANGED <<f_future, f_rx, f_err>>
    /\ UNCHANGED <<f_ip, f_local, f_token, f_sent>>
    /\ UNCHANGED <<facadeVars, scanVars, codecVars, wireVars, idVars, unpackVars>>

\* wait_for runs into the timeout, or the caller cancels the task, while the
\* future is pending; finally: transport.close()
FindTimeout ==
    /\ fpc = "waiting"
    /\ f_future = <<>>
    /\ \E e \in {"TimeoutError", "CancelledError"} : f_err' = e
    /\ f_sock' = "closed"
    /\ fpc' = "raised"
    /\ UNCHANGED <<f_future, f_rx, f_result>>
    /\ UNCHANGED <<f_ip, f_local, f_token, f_sent>>
    /\ UNCHANGED <<facadeVars, scanVars, codecVars, wireVars, idVars, unpackVars>>

FindNext ==
    \/ FindBind
    \/ FindSend
    \/ DatagramReceived
    \/ FindReturn
    \/ FindTimeout

-----------------------------------------------------------------------------
(* Decoding of what the appliance sends: packets.py *)

\* the decoders of the client: the unpack classmethods of packets.py and the
\* decoding of the Reserve response in ControlSession.try_configure
UnpackKinds ==
    {"BroadcastAdvertisement", "DeviceInfo", "EventNotification", "WelcomePacket",
     "StatusResponse", "PageHeader", "Reserve"}

\* the length below which each unpack raises; for the Reserve response the
\* end of the status word that try_configure reads at +8
MinLength ==
    [BroadcastAdvertisement |-> 48,
     DeviceInfo |-> 132,
     EventNotification |-> 48,
     WelcomePacket |-> 16,
     StatusResponse |-> 32,
     PageHeader |-> 42,
     Reserve |-> 12]

\* where the magic tag sits: Device Info has no length prefix
MagicOffset == [k \in UnpackKinds |-> IF k = "DeviceInfo" THEN 0 ELSE 4]

\* the tags an input carries: "VENS", "ssNR", or zero bytes
InputTags == {MAGIC, SSNR, <<0, 0, 0, 0>>}

\* the low byte of the word at +8 (command, event type or Reserve status; 0xFF
\* fills the whole word for the status -1) and of the word at +16
InputWords == {0, 33, 255}

\* the lengths an input has, relative to the minimum of its decoder
InputLengths(k) == {0, 8, MinLength[k] - 1, MinLength[k], MinLength[k] + 4}

\* n bytes as the appliance frames them: the length at +0 (or the tag, for
\* Device Info), the tag, a word at +8 and one at +16
Input(k, n, tag, w) ==
    [i \in 0..(n - 1) |->
        CASE i >= MagicOffset[k] /\ i < MagicOffset[k] + 4 -> tag[(i - MagicOffset[k]) + 1]
          [] i = 3 /\ k # "DeviceInfo" -> n
          [] i \in 8..10 -> IF w = 255 THEN 255 ELSE 0
          [] i = 11 -> w
          [] i = 19 -> w
          [] OTHER -> 0]

\* the error a decoder raises, as its result
UnpackError(e) == <<"raise", e>>

\* BroadcastAdvertisement.unpack
BroadcastAdvertisementUnpack(data) ==
    IF BLen(data) < 48 \/ Slice(data, 4, 8) # MAGIC THEN UnpackError("ValueError")
    ELSE IF Slice(data, 8, 12) # U32(33) THEN UnpackError("ValueError")
    ELSE <<"value", Slice(data, 20, 24), Slice(data, 24, 30)>>

\* DeviceInfo.unpack, as a result of the same form
DeviceInfoResult(data) ==
    IF DeviceInfoUnpack(data) = <<>> THEN UnpackError("ValueError")
    ELSE <<"value", DeviceInfoUnpack(data)[1]>>

\* EventNotification.unpack
EventNotificationUnpack(data) ==
    IF BLen(data) < 48 \/ Slice(data, 4, 8) # MAGIC THEN UnpackError("ValueError")
    ELSE <<"value", Slice(data, 8, 12), Slice(data, 16, 20)>>

\* WelcomePacket.unpack
WelcomePacketUnpack(data) ==
    IF BLen(data) < 16 \/ Slice(data, 4, 8) # MAGIC THEN UnpackError("ValueError")
    ELSE <<"value">>

\* StatusResponse.unpack: the length is the only thing it looks at
StatusResponseUnpack(data) ==
    IF BLen(data) < 32 THEN UnpackError("ValueError")
    ELSE <<"value", Slice(data, 16, 20)>>

\* PageHeader.unpack
PageHeaderUnpack(data) ==
    IF BLen(data) < 42 \/ Slice(data, 4, 8) # MAGIC THEN UnpackError("ValueError")
    ELSE <<"value", Slice(data, 0, 4), Slice(data, 12, 16), data[40], data[41]>>

\* how opening a TCP connection and reading its welcome can end:
\*   ok         the appliance sends its 16-byte welcome
\*   refused    asyncio.open_connection raises OSError
\*   closed     the stream ends inside the welcome
\*   badmagic   16 bytes arrive that do not carry the tag
OpenOutcome == {"ok", "refused", "closed", "badmagic"}

\* the bytes that arrive on the new connection before it goes quiet
Welcome(o) ==
    CASE o = "ok" -> Input("WelcomePacket", 16, MAGIC, 0)
      [] o = "closed" -> Input("WelcomePacket", 8, MAGIC, 0)
      [] o = "badmagic" -> Input("WelcomePacket", 16, SSNR, 0)
      [] o = "refused" -> <<>>

\* a client that takes any 16 bytes for the welcome
WelcomeError_AnyTag(w) ==
    IF BLen(w) < 16 THEN "ConnectionError"
    ELSE "none"

\* _connect / _open behind open_connection: _read_exact(reader, 16) raises
\* ConnectionError when the stream ends early, WelcomePacket.unpack raises
\* ValueError
WelcomeError(w) ==
    IF BLen(w) < 16 THEN "ConnectionError"
    ELSE IF WelcomePacketUnpack(w) = UnpackError("ValueError") THEN "ValueError"
    ELSE "none"

\* the error _connect / _open raises, "none" when it returns the streams
OpenError(o) == IF o = "refused" THEN "OSError" ELSE WelcomeError(Welcome(o))

UnpackOff ==
    /\ upc = "off"
    /\ u_kind = "none"
    /\ u_data = <<>>
    /\ u_out = <<"none">>

UtilOff == WireOff /\ IdentityOff /\ FindOff /\ UnpackOff

-----------------------------------------------------------------------------
(* Scanner facade: scanner.py, session.py, discovery.py *)

\* retries = 3 in _data_request_with_retry
Retries == 3

nTasks == Cardinality({t \in 1..MaxTasks : tasks[t] # "unborn"})

\* no _data_request_with_retry call was made by the running operation
NoProbe == [tries |-> 0, slept |-> 0, last |-> "none", end |-> "none"]

FacadeInit ==
    /\ pc = "start"
    /\ op = "none"
    /\ discovered = FALSE
    /\ connected = FALSE
    /\ hbTask = 0
    /\ hbSock = 0
    /\ tasks = [t \in 1..MaxTasks |-> "unborn"]
    /\ socks = [t \in 1..MaxTasks |-> "unborn"]
    /\ beats = 0
    /\ reserved = FALSE
    /\ rstatus = <<>>
    /\ steps = <<>>
    /\ inflight = "none"
    /\ attempt = 0
    /\ err = "none"
    /\ relErr = "none"
    /\ self_token = <<>>
    /\ sentTok = {}
    /\ data_port = 0
    /\ control_port = 0
    /\ advertised = <<>>
    /\ tcpPorts = {}
    /\ probe = NoProbe

\* the ports a Device-Info datagram may advertise (DeviceInfo.unpack reads
\* them at +22 and +26): the defaults, or others
DeviceInfos ==
    { [data_port |-> DEFAULT_DATA_PORT, control_port |-> DEFAULT_CONTROL_PORT],
      [data_port |-> 40000, control_port |-> 40001] }

\* the request object behind a step of the facade
WireRequestOf(req, t) ==
    CASE req = "Reserve" -> Req("Reserve", t, 0, <<>>, 0, 0, NoCfg)
      [] req = "GetWifiStatus" -> Req("GetWifiStatus", t, 0, <<>>, 0, 0, NoCfg)
      [] req = "Register" -> Req("Release", t, 1, <<>>, 0, 0, NoCfg)
      [] req = "Release0" -> Req("Release", t, 0, <<>>, 0, 0, NoCfg)
      [] req = "get_device_info" -> Req("GetDeviceInfo", t, 0, <<>>, 0, 0, NoCfg)
      [] req = "get_scan_params" -> Req("GetScanParams", t, 0, <<>>, 0, 0, NoCfg)
      [] req = "set_config" -> Req("Config", t, 0, <<>>, 0, 0, NoCfg)

\* the steps of the facade that are one TCP request
FacadeRequests ==
    {"Reserve", "GetWifiStatus", "Register", "Release0", "get_device_info",
     "get_scan_params", "set_config"}

\* bytes 16..24 of the TCP request of every step, built with every token
WireTokens ==
    [req \in FacadeRequests, t \in Tokens |-> Slice(Encode(WireRequestOf(req, t)), 16, 24)]

\* bytes 16..24 of the TCP request of a step, built with token t
TokenOnWire(req, t) == WireTokens[req, t]

\* bytes 12..20 of a discovery or heartbeat datagram
TokenOnDatagram(d) == Slice(d, 12, 20)

\* the token fields of the datagrams built with every token: the two of
\* _DiscoveryProtocol.send_discovery, and the one of _heartbeat_loop (flags = 1)
DatagramTokens ==
    [t \in Tokens |->
        [discovery |->
            { TokenOnDatagram(DiscoveryPackVens(ClientIp, t, CLIENT_DISCOVERY_PORT, 0)),
              TokenOnDatagram(DiscoveryPackSsnr(ClientIp, t, CLIENT_DISCOVERY_PORT)) },
         heartbeat |->
            TokenOnDatagram(DiscoveryPackVens(ClientIp, t, CLIENT_DISCOVERY_PORT, 1))]]

DiscoveryTokens(t) == DatagramTokens[t].discovery

HeartbeatToken(t) == DatagramTokens[t].heartbeat

\* the request classes run_scan packs with DataChannel.token
ScanRunKinds ==
    {"GetScanSettings", "SetScanSettings", "PrepareScan", "GetStatus", "WaitForScan",
     "PageTransfer", "GetPageMetadata"}

\* bytes 16..24 of the requests of a scan run, built with every token
ScanRunTokens ==
    [t \in Tokens |-> {Slice(Encode(Req(k, t, 0, <<>>, 0, 0, NoCfg)), 16, 24) : k \in ScanRunKinds}]

ScanTokens(t) == ScanRunTokens[t]

\* asyncio.open_connection(host, port) of a channel: the port it goes to
Opens(ch, port) == tcpPorts' = tcpPorts \cup {<<ch, port>>}

\* the first connection of an operation
OpensFirst(ch, port) == tcpPorts' = {<<ch, port>>}

\* where the foreground task is once an operation has raised: a failed pair()
\* never hands its Scanner to the caller
AfterRaise == IF op = "pair" THEN "lost" ELSE "idle"

\* an exception leaves the running operation and reaches its caller
Raise(e) ==
    /\ pc' = AfterRaise
    /\ err' = e
    /\ inflight' = "none"
    /\ attempt' = 0

\* a try_configure that takes every non-negative status for an acceptance
Accepted_NonNegative(status) == status >= 0

\* try_configure: status == 0 -> True
Accepted(status) == status = 0

\* a start_heartbeat that creates the task and the socket and keeps no
\* reference to them
StartHeartbeat_NotStored ==
    LET id == nTasks + 1 IN
    /\ tasks' = [tasks EXCEPT ![id] = "running"]
    /\ socks' = [socks EXCEPT ![id] = "open"]
    /\ UNCHANGED <<hbTask, hbSock>>

\* ScanSnapDiscovery.start_heartbeat: a new socket and a new task, stored in
\* _heartbeat_sock and _heartbeat_task whatever they held before
StartHeartbeat ==
    LET id == nTasks + 1 IN
    /\ tasks' = [tasks EXCEPT ![id] = "running"]
    /\ socks' = [socks EXCEPT ![id] = "open"]
    /\ hbTask' = id
    /\ hbSock' = id

\* stop_heartbeat awaits the cancelled task; a task that already ended with an
\* OSError hands that error to the awaiter
StopRaises == hbTask # 0 /\ tasks[hbTask] = "crashed"

\* ScanSnapDiscovery.stop_heartbeat when the await does not raise
StopHeartbeat ==
    /\ tasks' = IF hbTask # 0 THEN [tasks EXCEPT ![hbTask] = "cancelled"] ELSE tasks
    /\ socks' = IF hbSock # 0 THEN [socks EXCEPT ![hbSock] = "closed"] ELSE socks
    /\ hbTask' = 0
    /\ hbSock' = 0

\* Scanner.__init__ with an explicit host
Construct ==
    /\ probe' = NoProbe
    /\ pc = "start"
    /\ pc' = "idle"
    /\ op' = "construct"
    /\ UNCHANGED <<discovered, connected, hbTask, hbSock, tasks, socks, beats,
                   reserved, rstatus, steps, inflight, attempt, err, relErr>>
    /\ self_token' \in Tokens
    /\ data_port' = DEFAULT_DATA_PORT
    /\ control_port' = DEFAULT_CONTROL_PORT
    /\ UNCHANGED <<sentTok, advertised, tcpPorts>>
    /\ UNCHANGED <<scanVars, codecVars, utilVars>>

\* Scanner.discover
Discover ==
    /\ probe' = NoProbe
    /\ pc = "start"
    /\ op' = "discover"
    /\ steps' = <<"discovery">>
    /\ tcpPorts' = {}
    /\ \E found \in BOOLEAN, t \in Tokens, info \in DeviceInfos :
          /\ sentTok' = DiscoveryTokens(t)
          /\ IF found
             THEN /\ discovered' = TRUE
                  /\ self_token' = t
                  /\ data_port' = info.data_port
                  /\ control_port' = info.control_port
                  /\ advertised' = <<info>>
                  /\ pc' = "idle"
                  /\ err' = "none"
             ELSE /\ discovered' = FALSE
                  /\ pc' = "lost"
                  /\ err' = "TimeoutError"
                  /\ UNCHANGED <<self_token, data_port, control_port, advertised>>
    /\ UNCHANGED <<connected, hbTask, hbSock, tasks, socks, beats, reserved,
                   rstatus, inflight, attempt, relErr>>
    /\ UNCHANGED <<scanVars, codecVars, utilVars>>

\* Scanner.pair, step 1: UDP discovery, then the Scanner is built
PairDiscover ==
    /\ probe' = NoProbe
    /\ pc = "start"
    /\ op' = "pair"
    /\ steps' = <<"discovery">>
    /\ tcpPorts' = {}
    /\ \E found \in BOOLEAN, t \in Tokens, info \in DeviceInfos :
          /\ sentTok' = DiscoveryTokens(t)
          /\ IF found
             THEN /\ discovered' = TRUE
                  /\ self_token' = t
                  /\ data_port' = info.data_port
                  /\ control_port' = info.control_port
                  /\ advertised' = <<info>>
                  /\ pc' = "p_reserve"
                  /\ err' = "none"
             ELSE /\ discovered' = FALSE
                  /\ pc' = "lost"
                  /\ err' = "TimeoutError"
                  /\ UNCHANGED <<self_token, data_port, control_port, advertised>>
    /\ UNCHANGED <<connected, hbTask, hbSock, tasks, socks, beats, reserved,
                   rstatus, inflight, attempt, relErr>>
    /\ UNCHANGED <<scanVars, codecVars, utilVars>>

\* ControlSession._connect + writer.write of a control request that is not
\* retried and whose errors propagate
CtlSend(label, req) ==
    /\ probe' = NoProbe
    /\ pc = label
    /\ inflight = "none"
    /\ \E o \in OpenOutcome :
          IF OpenError(o) = "none"
          THEN /\ inflight' = req
               /\ steps' = Append(steps, req)
               /\ sentTok' = sentTok \cup {TokenOnWire(req, self_token)}
               /\ UNCHANGED <<pc, err, attempt>>
          ELSE /\ Raise(OpenError(o))
               /\ UNCHANGED <<steps, sentTok>>
    /\ UNCHANGED <<op, discovered, connected, hbTask, hbSock, tasks, socks, beats,
                   reserved, rstatus, relErr>>
    /\ Opens("control", control_port)
    /\ UNCHANGED <<self_token, data_port, control_port, advertised>>
    /\ UNCHANGED <<scanVars, codecVars, utilVars>>

\* the response of such a request: read in full, or the stream ends
CtlRecv(label, req, next, marksConnected) ==
    /\ pc = label
    /\ inflight = req
    /\ \E got \in BOOLEAN :
          IF got
          THEN /\ pc' = next
               /\ inflight' = "none"
               /\ connected' = (connected \/ marksConnected)
               /\ UNCHANGED <<err, attempt>>
          ELSE /\ Raise("ConnectionError")
               /\ UNCHANGED connected
    /\ UNCHANGED <<op, discovered, hbTask, hbSock, tasks, socks, beats, reserved,
                   rstatus, steps, relErr>>
    /\ UNCHANGED <<sessVars, scanVars, codecVars, utilVars>>

\* delay of _data_request_with_retry, in seconds
RetryDelay == 2

\* the call an attempt belongs to: a fresh one when the loop is at attempt 0
ThisProbe == IF attempt = 0 /\ inflight = "none" THEN NoProbe ELSE probe

Retried_Always(e) == attempt # Retries - 1

\* except (ConnectionError, OSError): if attempt == retries - 1: raise
Retried(e) == IsConnErr(e) /\ attempt # Retries - 1

\* _data_request_with_retry: what an error of one attempt leads to; p is the
\* record of the call with this attempt counted in
ProbeError(e, p) ==
    IF Retried(e)
    THEN /\ attempt' = attempt + 1
         /\ inflight' = "none"
         /\ probe' = [p EXCEPT !.slept = @ + RetryDelay, !.last = e, !.end = "running"]
         /\ UNCHANGED <<pc, err>>
    ELSE /\ Raise(e)
         /\ probe' = [p EXCEPT !.last = e, !.end = "raised"]

\* DataChannel._open + writer.write under _data_request_with_retry
ProbeSend(label, req) ==
    /\ pc = label
    /\ inflight = "none"
    /\ \E o \in OpenOutcome :
          IF OpenError(o) = "none"
          THEN /\ inflight' = req
               /\ steps' = Append(steps, req)
               /\ sentTok' = sentTok \cup {TokenOnWire(req, self_token)}
               /\ probe' = [ThisProbe EXCEPT !.tries = @ + 1, !.end = "running"]
               /\ UNCHANGED <<pc, err, attempt>>
          ELSE /\ ProbeError(OpenError(o), [ThisProbe EXCEPT !.tries = @ + 1])
               /\ UNCHANGED <<steps, sentTok>>
    /\ UNCHANGED <<op, discovered, connected, hbTask, hbSock, tasks, socks, beats,
                   reserved, rstatus, relErr>>
    /\ Opens("data", data_port)
    /\ UNCHANGED <<self_token, data_port, control_port, advertised>>
    /\ UNCHANGED <<scanVars, codecVars, utilVars>>

\* DataChannel._request reading the response under _data_request_with_retry
ProbeRecv(label, req, next, marksConnected) ==
    /\ pc = label
    /\ inflight = req
    /\ \E got \in BOOLEAN :
          IF got
          THEN /\ pc' = next
               /\ inflight' = "none"
               /\ attempt' = 0
               /\ connected' = (connected \/ marksConnected)
               /\ probe' = [probe EXCEPT !.end = "returned"]
               /\ UNCHANGED err
          ELSE /\ ProbeError("ConnectionError", probe)
               /\ UNCHANGED connected
    /\ UNCHANGED <<op, discovered, hbTask, hbSock, tasks, socks, beats, reserved,
                   rstatus, steps, relErr>>
    /\ UNCHANGED <<self_token, sentTok, data_port, control_port, advertised, tcpPorts>>
    /\ UNCHANGED <<scanVars, codecVars, utilVars>>

\* what the client reads back for a Reserve: the stream ends, a response too
\* short to hold the status at +8, or a response carrying a status word
ReserveReplies == {<<"closed">>, <<"short">>} \cup {<<"status", w>> : w \in StatusWords}

\* Scanner.pair, step 2: ControlSession.try_configure (connection and request)
PairReserveSend == CtlSend("p_reserve", "Reserve")

\* Scanner.pair, step 2: the Reserve response and the acceptance check
PairReserveRecv ==
    /\ pc = "p_reserve"
    /\ inflight = "Reserve"
    /\ inflight' = "none"
    /\ \E r \in ReserveReplies :
          CASE r[1] = "closed" ->
                 /\ Raise("ConnectionError")
                 /\ UNCHANGED <<rstatus, reserved, hbTask, hbSock, tasks, socks>>
            [] r[1] = "short" ->
                 /\ Raise("StructError")
                 /\ UNCHANGED <<rstatus, reserved, hbTask, hbSock, tasks, socks>>
            [] r[1] = "status" ->
                 LET status == Signed32(r[2]) IN
                 /\ rstatus' = <<status>>
                 /\ reserved' = (reserved \/ status = 0)
                 /\ IF Accepted(status)
                    THEN /\ pc' = "p_hb"
                         /\ UNCHANGED <<err, attempt, hbTask, hbSock, tasks, socks>>
                    ELSE IF StopRaises
                         THEN /\ Raise("OSError")
                              /\ UNCHANGED <<hbTask, hbSock, tasks, socks>>
                         ELSE /\ StopHeartbeat
                              /\ Raise("PairingRejected")
    /\ UNCHANGED <<op, discovered, connected, beats, steps, relErr>>
    /\ UNCHANGED <<sessVars, scanVars, codecVars, utilVars>>

\* Scanner.pair, step 3: start_heartbeat
PairStartHeartbeat ==
    /\ pc = "p_hb"
    /\ StartHeartbeat
    /\ steps' = Append(steps, "start_heartbeat")
    /\ pc' = "p_devinfo"
    /\ UNCHANGED <<op, discovered, connected, beats, reserved, rstatus, inflight,
                   attempt, err, relErr>>
    /\ UNCHANGED <<sessVars, scanVars, codecVars, utilVars>>

\* Scanner.pair, step 4: data-channel probes
PairDevInfoSend == ProbeSend("p_devinfo", "get_device_info")
PairDevInfoRecv == ProbeRecv("p_devinfo", "get_device_info", "p_params", FALSE)
PairParamsSend == ProbeSend("p_params", "get_scan_params")

\* a pair() that goes from the probes straight to Register
PairParamsRecv_SkipStatus == ProbeRecv("p_params", "get_scan_params", "p_register", FALSE)

PairParamsRecv == ProbeRecv("p_params", "get_scan_params", "p_status", FALSE)


\* Scanner.pair, step 5: check_status, register, then _connected = True
PairStatusSend == CtlSend("p_status", "GetWifiStatus")
PairStatusRecv == CtlRecv("p_status", "GetWifiStatus", "p_register", FALSE)
PairRegisterSend == CtlSend("p_register", "Register")
PairRegisterRecv == CtlRecv("p_register", "Register", "idle", TRUE)


\* Scanner.connect: _ensure_discovered
ConnectEnsureDiscovered ==
    /\ probe' = NoProbe
    /\ pc = "idle"
    /\ nTasks < MaxTasks
    /\ op' = "connect"
    /\ rstatus' = <<>>
    /\ relErr' = "none"
    /\ IF discovered
       THEN /\ steps' = <<>>
            /\ pc' = "c_hb"
            /\ err' = "none"
            /\ UNCHANGED <<discovered, sentTok, advertised>>
       ELSE /\ steps' = <<"discovery">>
            /\ sentTok' = sentTok \cup DiscoveryTokens(self_token)
            /\ \E found \in BOOLEAN, info \in DeviceInfos :
                  IF found
                  THEN /\ discovered' = TRUE
                       /\ advertised' = <<info>>
                       /\ pc' = "c_hb"
                       /\ err' = "none"
                  ELSE /\ discovered' = FALSE
                       /\ pc' = "idle"
                       /\ err' = "TimeoutError"
                       /\ UNCHANGED advertised
    /\ tcpPorts' = {}
    /\ UNCHANGED <<connected, hbTask, hbSock, tasks, socks, beats, reserved,
                   inflight, attempt>>
    /\ UNCHANGED <<self_token, data_port, control_port>>
    /\ UNCHANGED <<scanVars, codecVars, utilVars>>

\* Scanner.connect: start_heartbeat
ConnectStartHeartbeat ==
    /\ pc = "c_hb"
    /\ StartHeartbeat
    /\ steps' = Append(steps, "start_heartbeat")
    /\ pc' = "c_reserve"
    /\ UNCHANGED <<op, discovered, connected, beats, reserved, rstatus, inflight,
                   attempt, err, relErr>>
    /\ UNCHANGED <<sessVars, scanVars, codecVars, utilVars>>

\* Scanner.connect: ControlSession.configure (connection and request)
ConnectReserveSend == CtlSend("c_reserve", "Reserve")

\* Scanner.connect: the Reserve response; configure returns it undecoded
ConnectReserveRecv ==
    /\ pc = "c_reserve"
    /\ inflight = "Reserve"
    /\ inflight' = "none"
    /\ \E r \in ReserveReplies :
          CASE r[1] = "closed" ->
                 /\ Raise("ConnectionError")
                 /\ UNCHANGED <<rstatus, reserved>>
            [] r[1] = "short" ->
                 /\ pc' = "c_devinfo"
                 /\ UNCHANGED <<rstatus, reserved, err, attempt>>
            [] r[1] = "status" ->
                 /\ rstatus' = <<Signed32(r[2])>>
                 /\ reserved' = (reserved \/ Signed32(r[2]) = 0)
                 /\ pc' = "c_devinfo"
                 /\ UNCHANGED <<err, attempt>>
    /\ UNCHANGED <<op, discovered, connected, hbTask, hbSock, tasks, socks, beats,
                   steps, relErr>>
    /\ UNCHANGED <<sessVars, scanVars, codecVars, utilVars>>

\* a connect() that leaves GetWifiStatus out between the probes
ConnectDevInfoRecv_SkipStatus == ProbeRecv("c_devinfo", "get_device_info", "c_params", FALSE)

\* Scanner.connect: get_device_info, check_status, get_scan_params, set_config,
\* then _connected = True
ConnectDevInfoSend == ProbeSend("c_devinfo", "get_device_info")
ConnectDevInfoRecv == ProbeRecv("c_devinfo", "get_device_info", "c_status", FALSE)
ConnectStatusSend == CtlSend("c_status", "GetWifiStatus")
ConnectStatusRecv == CtlRecv("c_status", "GetWifiStatus", "c_params", FALSE)
ConnectParamsSend == ProbeSend("c_params", "get_scan_params")
ConnectParamsRecv == ProbeRecv("c_params", "get_scan_params", "c_config", FALSE)
ConnectConfigSend == ProbeSend("c_config", "set_config")
ConnectConfigRecv == ProbeRecv("c_config", "set_config", "idle", TRUE)

\* the errors of deregister that disconnect() catches
Swallowed(e) == IsConnErr(e)

\* Scanner.disconnect: ControlSession.deregister (connection and request)
DisconnectReleaseSend ==
    /\ probe' = NoProbe
    /\ pc = "idle"
    /\ op' = "disconnect"
    /\ rstatus' = <<>>
    /\ \E o \in OpenOutcome :
          IF OpenError(o) = "none"
          THEN /\ inflight' = "Release0"
               /\ sentTok' = sentTok \cup {TokenOnWire("Release0", self_token)}
               /\ steps' = <<"Release0">>
               /\ reserved' = FALSE
               /\ pc' = "d_release"
               /\ relErr' = "none"
               /\ err' = "none"
          ELSE /\ inflight' = "none"
               /\ steps' = <<>>
               /\ relErr' = OpenError(o)
               /\ UNCHANGED <<reserved, sentTok>>
               /\ IF Swallowed(OpenError(o))
                  THEN /\ pc' = "d_stop"
                       /\ err' = "none"
                  ELSE /\ pc' = "idle"
                       /\ err' = OpenError(o)
    /\ UNCHANGED <<discovered, connected, hbTask, hbSock, tasks, socks, beats,
                   attempt>>
    /\ OpensFirst("control", control_port)
    /\ UNCHANGED <<self_token, data_port, control_port, advertised>>
    /\ UNCHANGED <<scanVars, codecVars, utilVars>>

\* Scanner.disconnect: the 16-byte acknowledgement of the Release
DisconnectReleaseRecv ==
    /\ pc = "d_release"
    /\ inflight = "Release0"
    /\ inflight' = "none"
    /\ \E got \in BOOLEAN :
          LET e == IF got THEN "none" ELSE "ConnectionError" IN
          /\ relErr' = e
          /\ IF got \/ Swallowed(e)
             THEN /\ pc' = "d_stop"
                  /\ UNCHANGED err
             ELSE /\ pc' = "idle"
                  /\ err' = e
    /\ UNCHANGED <<op, discovered, connected, hbTask, hbSock, tasks, socks, beats,
                   reserved, rstatus, steps, attempt>>
    /\ UNCHANGED <<sessVars, scanVars, codecVars, utilVars>>

\* Scanner.disconnect: stop_heartbeat, then _connected = False
DisconnectStop ==
    /\ pc = "d_stop"
    /\ pc' = "idle"
    /\ IF StopRaises
       THEN /\ err' = "OSError"
            /\ UNCHANGED <<hbTask, hbSock, tasks, socks, connected>>
       ELSE /\ StopHeartbeat
            /\ connected' = FALSE
            /\ err' = "none"
    /\ UNCHANGED <<op, discovered, beats, reserved, rstatus, steps, inflight,
                   attempt, relErr>>
    /\ UNCHANGED <<sessVars, scanVars, codecVars, utilVars>>

\* Scanner.scan as the facade sees it: the scan run ends with its pages or
\* with an error; it touches neither the heartbeat nor the session state
Scan ==
    /\ probe' = NoProbe
    /\ pc = "idle"
    /\ op' = "scan"
    /\ steps' = <<>>
    /\ rstatus' = <<>>
    /\ relErr' = "none"
    /\ \E e \in {"none", "ScanError", "ConnectionError"} : err' = e
    /\ UNCHANGED <<pc, discovered, connected, hbTask, hbSock, tasks, socks, beats,
                   reserved, inflight, attempt>>
    /\ OpensFirst("data", data_port)
    /\ sentTok' = sentTok \cup ScanTokens(self_token)
    /\ UNCHANGED <<self_token, data_port, control_port, advertised>>
    /\ UNCHANGED <<scanVars, codecVars, utilVars>>

\* _heartbeat_loop: one sendto that succeeds
HeartbeatSend ==
    /\ UNCHANGED probe
    /\ \E t \in 1..MaxTasks : tasks[t] = "running"
    /\ beats < MaxBeats
    /\ beats' = beats + 1
    /\ UNCHANGED <<pc, op, discovered, connected, hbTask, hbSock, tasks, socks,
                   reserved, rstatus, steps, inflight, attempt, err, relErr>>
    /\ sentTok' = sentTok \cup {HeartbeatToken(self_token)}
    /\ UNCHANGED <<self_token, data_port, control_port, advertised, tcpPorts>>
    /\ UNCHANGED <<scanVars, codecVars, utilVars>>

\* _heartbeat_loop: sendto raises OSError; the loop catches CancelledError
\* only, so the task ends with that error
HeartbeatFail ==
    /\ \E t \in 1..MaxTasks :
          /\ tasks[t] = "running"
          /\ tasks' = [tasks EXCEPT ![t] = "crashed"]
    /\ UNCHANGED <<pc, op, discovered, connected, hbTask, hbSock, socks, beats,
                   reserved, rstatus, steps, inflight, attempt, err, relErr>>
    /\ UNCHANGED <<sessVars, scanVars, codecVars, utilVars>>

FacadeNext ==
    \/ Construct
    \/ Discover
    \/ PairDiscover
    \/ PairReserveSend
    \/ PairReserveRecv
    \/ PairStartHeartbeat
    \/ PairDevInfoSend
    \/ PairDevInfoRecv
    \/ PairParamsSend
    \/ PairParamsRecv
    \/ PairStatusSend
    \/ PairStatusRecv
    \/ PairRegisterSend
    \/ PairRegisterRecv
    \/ ConnectEnsureDiscovered
    \/ ConnectStartHeartbeat
    \/ ConnectReserveSend
    \/ ConnectReserveRecv
    \/ ConnectDevInfoSend
    \/ ConnectDevInfoRecv
    \/ ConnectStatusSend
    \/ ConnectStatusRecv
    \/ ConnectParamsSend
    \/ ConnectParamsRecv
    \/ ConnectConfigSend
    \/ ConnectConfigRecv
    \/ DisconnectReleaseSend
    \/ DisconnectReleaseRecv
    \/ DisconnectStop
    \/ Scan
    \/ HeartbeatSend
    \/ HeartbeatFail


-----------------------------------------------------------------------------
(* One scan run: DataChannel.run_scan, _transfer_page_chunks, Scanner.scan *)

\* PAGE_TYPE_FINAL: the page-type of the last chunk of a side
PAGE_TYPE_FINAL == 2
\* ADF_NO_PAPER_MASK: the scan-status bit that reports an empty feeder
ADF_NO_PAPER_MASK == 128
\* PageHeader.size()
PageHeaderSize == 42

NoExc == <<"none", "none">>

ScanOff ==
    /\ spc = "off"
    /\ cfgDuplex = FALSE
    /\ cfgBleed = FALSE
    /\ physical_sheet = 0
    /\ transfer_sheet = 0
    /\ side_idx = 0
    /\ chunk = 0
    /\ jpeg_buf = <<>>
    /\ pages = <<>>
    /\ returned = <<>>
    /\ exc = NoExc
    /\ lastReq = <<"none">>
    /\ awaiting = FALSE
    /\ conn = "none"
    /\ endSent = FALSE
    /\ endFailed = FALSE
    /\ link = "up"
    /\ rxChunks = <<>>
    /\ dcall = "none"
    /\ onPage = FALSE
    /\ called = <<>>
    /\ owed = 0
    /\ opened = 0
    /\ sent = {}
    /\ metaSent = 0
    /\ lastResp = <<"none">>

\* the state when Scanner.scan(config) or Scanner.scan_to_files(dir, config)
\* is called: any duplex and bleed-through; scan_to_files passes on_page
ScanInit ==
    /\ spc = "scan"
    /\ dcall = "run_scan"
    /\ onPage \in BOOLEAN
    /\ cfgDuplex \in BOOLEAN
    /\ cfgBleed \in BOOLEAN
    /\ physical_sheet = 0
    /\ transfer_sheet = 0
    /\ side_idx = 0
    /\ chunk = 0
    /\ jpeg_buf = <<>>
    /\ pages = <<>>
    /\ returned = <<>>
    /\ exc = NoExc
    /\ lastReq = <<"none">>
    /\ awaiting = FALSE
    /\ conn = "none"
    /\ endSent = FALSE
    /\ endFailed = FALSE
    /\ link = "up"
    /\ rxChunks = <<>>
    /\ called = <<>>
    /\ owed = 0
    /\ opened = 0
    /\ sent = {}
    /\ metaSent = 0
    /\ lastResp = <<"none">>

\* the single-shot methods of DataChannel, each one _request call
SingleShot == {"get_device_info", "get_scan_params", "get_scan_settings", "set_config"}

\* the state when a single-shot method is called
RequestInit ==
    /\ spc = "request"
    /\ dcall \in SingleShot
    /\ onPage = FALSE
    /\ cfgDuplex = FALSE
    /\ cfgBleed = FALSE
    /\ physical_sheet = 0
    /\ transfer_sheet = 0
    /\ side_idx = 0
    /\ chunk = 0
    /\ jpeg_buf = <<>>
    /\ pages = <<>>
    /\ returned = <<>>
    /\ exc = NoExc
    /\ lastReq = <<"none">>
    /\ awaiting = FALSE
    /\ conn = "none"
    /\ endSent = FALSE
    /\ endFailed = FALSE
    /\ link = "up"
    /\ rxChunks = <<>>
    /\ called = <<>>
    /\ owed = 0
    /\ opened = 0
    /\ sent = {}
    /\ metaSent = 0
    /\ lastResp = <<"none">>

\* sides_per_sheet = 2 if config.duplex else 1
SidesPerSheet == IF cfgDuplex THEN 2 ELSE 1

\* PageHeader.jpeg_size: max(0, total_length - 42)
JpegSize(total_length) ==
    IF total_length - PageHeaderSize > 0 THEN total_length - PageHeaderSize ELSE 0

\* _read_exact(reader, n) on the bytes that follow on the stream
ReadExact(stream, n) == SubSeq(stream, 1, n)

\* a scan-status test that looks at the lowest bit
NoPaper_LowBit(scan_status) == scan_status % 2 = 1

\* scan_status & ADF_NO_PAPER_MASK (the mask is one bit)
NoPaper(scan_status) == (scan_status \div ADF_NO_PAPER_MASK) % 2 = 1

\* the bytes the appliance sends as chunk c of transfer sheet t: one byte that
\* names the chunk, or nothing
ChunkBodies(t, c) == { <<>>, <<(16 * t) + c + 1>> }

\* a run_scan whose errors bypass the End-scan request
OnError_SkipEnd == "close"

\* where an exception raised inside run_scan's try block goes: the finally
\* clause, which starts with the End-scan request
OnError == "end"

\* an exception raised inside the try block
ScanRaise(e, where) ==
    /\ exc' = <<e, where>>
    /\ spc' = OnError
    /\ awaiting' = FALSE

\* except (ConnectionError, OSError): pass -- what an error of the End-scan
\* request leaves in flight
AfterEndError(inFlight, e) == inFlight

\* a scan() that returns the empty pages too
FilterPages_KeepAll(ps) == ps

\* [(s, sd, d) for s, sd, d in pages if d]
FilterPages(ps) == SelectSeq(ps, LAMBDA p : Len(p[3]) > 0)

\* the part of the loop state a request or a response leaves alone
callVars == <<dcall, onPage, called, opened>>

\* writer.write(data): one more request is on the connection
Written(req) ==
    /\ owed' = owed + 1
    /\ sent' = sent \cup {req[1]}
    /\ metaSent' = IF req[1] = "meta" THEN metaSent + 1 ELSE metaSent

\* a read on the connection: the response of the last request was read in
\* full, or the read stopped before its end
ReadBack(reply, full) ==
    /\ lastResp' = reply
    /\ owed' = IF full THEN owed - 1 ELSE owed
    /\ UNCHANGED <<sent, metaSent>>

\* writer.write(request); await writer.drain()
ReqWrite(label, req) ==
    /\ spc = label
    /\ ~awaiting
    /\ lastReq' = req
    /\ Written(req)
    /\ \E ok \in BOOLEAN :
          IF ok
          THEN /\ awaiting' = TRUE
               /\ UNCHANGED <<spc, exc, link>>
          ELSE /\ ScanRaise("ConnectionError", label)
               /\ link' = "reset"
    /\ UNCHANGED <<callVars, lastResp>>
    /\ UNCHANGED <<cfgDuplex, cfgBleed, physical_sheet, transfer_sheet, side_idx,
                   chunk, jpeg_buf, pages, returned, conn, endSent, endFailed,
                   rxChunks>>
    /\ UNCHANGED <<facadeVars, codecVars, utilVars>>

\* a client that moves on to the next request without reading the response
ReqRead_Skipped(label, next) ==
    /\ spc = label
    /\ awaiting
    /\ spc' = next
    /\ awaiting' = FALSE
    /\ UNCHANGED <<cfgDuplex, cfgBleed, physical_sheet, transfer_sheet, side_idx,
                   chunk, jpeg_buf, pages, returned, lastReq, conn, endSent,
                   endFailed, rxChunks, exc, link, callVars, owed, sent, metaSent,
                   lastResp>>
    /\ UNCHANGED <<facadeVars, codecVars, utilVars>>

\* _read_response whose content run_scan does not look at
ReqRead(label, next) ==
    /\ spc = label
    /\ awaiting
    /\ \E r \in {"ok", "eof", "reset"} :
          /\ ReadBack(<<r>>, r = "ok")
          /\ IF r = "ok"
             THEN /\ spc' = next
                  /\ awaiting' = FALSE
                  /\ UNCHANGED <<exc, link>>
             ELSE /\ ScanRaise("ConnectionError", label)
                  /\ link' = r
    /\ UNCHANGED callVars
    /\ UNCHANGED <<cfgDuplex, cfgBleed, physical_sheet, transfer_sheet, side_idx,
                   chunk, jpeg_buf, pages, returned, lastReq, conn, endSent,
                   endFailed, rxChunks>>
    /\ UNCHANGED <<facadeVars, codecVars, utilVars>>

\* Scanner.scan: the optional wait for the button, then DataChannel._open
ScanOpen ==
    /\ spc = "scan"
    /\ \E button \in {"unused", "pressed", "timeout"} :
       \E o \in OpenOutcome :
          IF button = "timeout"
          THEN /\ exc' = <<"TimeoutError", "button">>
               /\ spc' = "failed"
               /\ UNCHANGED <<conn, opened, lastResp>>
          ELSE IF OpenError(o) = "none"
               THEN /\ conn' = "open"
                    /\ opened' = opened + 1
                    /\ spc' = "get_settings"
                    /\ lastResp' = <<"welcome", Welcome(o)>>
                    /\ UNCHANGED exc
               ELSE /\ exc' = <<OpenError(o), "open">>
                    /\ spc' = "failed"
                    /\ conn' = IF o = "refused" THEN "none" ELSE "leaked"
                    /\ opened' = IF o = "refused" THEN opened ELSE opened + 1
                    /\ lastResp' = IF o = "refused" THEN lastResp
                                   ELSE <<"welcome", Welcome(o)>>
    /\ UNCHANGED <<dcall, onPage, called, owed, sent, metaSent>>
    /\ UNCHANGED <<cfgDuplex, cfgBleed, physical_sheet, transfer_sheet, side_idx,
                   chunk, jpeg_buf, pages, returned, lastReq, awaiting, endSent,
                   endFailed, link, rxChunks>>
    /\ UNCHANGED <<facadeVars, codecVars, utilVars>>

\* step 1: get current settings
GetSettingsWrite == ReqWrite("get_settings", <<"get_settings">>)
GetSettingsRead == ReqRead("get_settings", "set_config")

\* step 2: write scan config
SetConfigWrite == ReqWrite("set_config", <<"set_config">>)

\* a client that writes the tone curve whatever the configuration says
SetConfigRead_AlwaysTone == ReqRead("set_config", "tone_curve")

\* the Set-scan-settings response; if config.bleed_through: step 2.5 is next
SetConfigRead == ReqRead("set_config", IF cfgBleed THEN "tone_curve" ELSE "prepare")

\* step 2.5: tone curve, when config.bleed_through
ToneCurveWrite == ReqWrite("tone_curve", <<"tone_curve">>)
ToneCurveRead == ReqRead("tone_curve", "prepare")

\* step 3: prepare scan
PrepareWrite == ReqWrite("prepare", <<"prepare">>)
PrepareRead == ReqRead("prepare", "status0")

\* step 4: get status
Status0Write == ReqWrite("status0", <<"status">>)

\* step 4: the status response; the scan-status word is looked at when the
\* response is long enough to hold it
Status0Read ==
    /\ spc = "status0"
    /\ awaiting
    /\ \E r \in {<<"eof">>, <<"reset">>, <<"short">>, <<"word", 0>>, <<"word", 1>>,
                 <<"word", 128>>, <<"word", 129>>} :
          /\ ReadBack(r, r[1] \notin {"eof", "reset"})
          /\ CASE r[1] \in {"eof", "reset"} ->
                    /\ ScanRaise("ConnectionError", "status0")
                    /\ link' = r[1]
               [] r[1] = "short" ->
                    /\ spc' = "wait0"
                    /\ awaiting' = FALSE
                    /\ UNCHANGED <<exc, link>>
               [] r[1] = "word" ->
                    IF NoPaper(r[2])
                    THEN /\ ScanRaise("NoPaper", "status0")
                         /\ UNCHANGED link
                    ELSE /\ spc' = "wait0"
                         /\ awaiting' = FALSE
                         /\ UNCHANGED <<exc, link>>
    /\ UNCHANGED callVars
    /\ UNCHANGED <<cfgDuplex, cfgBleed, physical_sheet, transfer_sheet, side_idx,
                   chunk, jpeg_buf, pages, returned, lastReq, conn, endSent,
                   endFailed, rxChunks>>
    /\ UNCHANGED <<facadeVars, codecVars, utilVars>>

\* a client that takes every WaitForScan status for 0
WaitStatus_Ignored(r) == 0

\* wait_status: the status word of a WaitForScan response, 0 when the
\* response is too short to hold it
WaitStatus(r) == IF r[1] = "word" THEN r[2] ELSE 0

\* step 5: wait for scan
Wait0Write == ReqWrite("wait0", <<"wait">>)

\* step 5: the first WaitForScan response; a response too short to hold the
\* status counts as status 0; then the page loop starts
Wait0Read ==
    /\ spc = "wait0"
    /\ awaiting
    /\ \E r \in {<<"eof">>, <<"reset">>, <<"short">>, <<"word", 0>>, <<"word", 1>>} :
          LET wait_status == WaitStatus(r) IN
          /\ ReadBack(r, r[1] \notin {"eof", "reset"})
          /\ IF r[1] \in {"eof", "reset"}
             THEN /\ ScanRaise("ConnectionError", "wait0")
                  /\ link' = r[1]
             ELSE IF wait_status # 0
                  THEN /\ ScanRaise("WaitFailed", "wait0")
                       /\ UNCHANGED link
                  ELSE /\ spc' = "chunk"
                       /\ awaiting' = FALSE
                       /\ UNCHANGED <<exc, link>>
    /\ physical_sheet' = 0
    /\ transfer_sheet' = 0
    /\ side_idx' = 0
    /\ chunk' = 0
    /\ jpeg_buf' = <<>>
    /\ rxChunks' = <<>>
    /\ UNCHANGED callVars
    /\ UNCHANGED <<cfgDuplex, cfgBleed, pages, returned, lastReq, conn, endSent,
                   endFailed>>
    /\ UNCHANGED <<facadeVars, codecVars, utilVars>>


\* the page-types the appliance answers with in this model
PageTypes == {0, 1, 2}

\* a client that takes any response holding a length prefix for a page
ShortResponse_Below4(total_length) == total_length < 4

\* if total_length < PageHeader.size()
ShortResponse(total_length) == total_length < PageHeaderSize

\* the total lengths of the error responses of this model
ErrorLengths == {0, 16, 41}

\* what the client reads back for a page-transfer request:
\*   eof, reset   the stream ends or breaks inside the response
\*   badmagic     a 42-byte header without the VENS tag, then the payload
\*   error        a response shorter than a page header; its remainder
\*                arrives or the stream ends before it
\*   chunk        a page header of some page-type and its payload
ChunkReplies ==
    {<<"eof">>, <<"reset">>}
    \cup {<<"badmagic", body>> : body \in ChunkBodies(transfer_sheet, chunk)}
    \cup {<<"error", n, TRUE>> : n \in ErrorLengths}
    \cup {<<"error", n, FALSE>> : n \in {m \in ErrorLengths : m > 4}}
    \cup {<<"chunk", pt, body>> : pt \in PageTypes,
                                   body \in ChunkBodies(transfer_sheet, chunk)}

\* a counter that advances by two per side
NextTransferSheet_Twice(t) == t + 2

\* the counter after one side: transfer_sheet += 1
NextTransferSheet(t) == t + 1

\* a buffer that keeps only the chunk read last
Extend_Overwrite(buf, jpeg_chunk) == jpeg_chunk

\* jpeg_buf.extend(jpeg_chunk)
Extend(buf, jpeg_chunk) == buf \o jpeg_chunk

\* a run_scan that keeps the front sides only
AppendPage_FrontOnly(ps, sheet, side, data) ==
    IF side = 0 THEN Append(ps, <<sheet, side, data>>) ELSE ps

\* pages.append((physical_sheet, side_idx, jpeg_data))
AppendPage(ps, sheet, side, data) == Append(ps, <<sheet, side, data>>)

\* _transfer_page_chunks: one PageTransferRequest
ChunkWrite == ReqWrite("chunk", <<"page", transfer_sheet, chunk, side_idx = 1>>)

\* _transfer_page_chunks: one chunk response; on the final chunk the buffer is
\* returned and run_scan appends the page
ChunkRead ==
    /\ spc = "chunk"
    /\ awaiting
    /\ \E r \in ChunkReplies :
          /\ lastResp' = r
          /\ UNCHANGED <<sent, metaSent>>
          /\ CASE r[1] \in {"eof", "reset"} ->
                    /\ ScanRaise("ConnectionError", "chunk")
                    /\ link' = r[1]
                    /\ UNCHANGED <<chunk, jpeg_buf, pages, rxChunks, owed>>
               [] r[1] = "badmagic" ->
                    \* PageHeader.unpack raises before the payload is read
                    /\ ScanRaise("ValueError", "chunk")
                    /\ owed' = IF r[2] = <<>> THEN owed - 1 ELSE owed
                    /\ UNCHANGED <<link, chunk, jpeg_buf, pages, rxChunks>>
               [] r[1] = "error" ->
                    \* total_length < PageHeader.size(): the remainder is read,
                    \* then the error is raised
                    \* (a client that went on to read a 42-byte header would
                    \* run past the end of the response)
                    /\ IF ShortResponse(r[2]) /\ r[3]
                       THEN /\ ScanRaise("PageTransfer", "chunk")
                            /\ owed' = owed - 1
                            /\ UNCHANGED link
                       ELSE /\ ScanRaise("ConnectionError", "chunk")
                            /\ link' = "eof"
                            /\ UNCHANGED owed
                    /\ UNCHANGED <<chunk, jpeg_buf, pages, rxChunks>>
               [] r[1] = "chunk" ->
                    LET total_length == PageHeaderSize + Len(r[3])
                        jpeg_chunk == ReadExact(r[3], JpegSize(total_length))
                        buf == Extend(jpeg_buf, jpeg_chunk)
                    IN
                    /\ r[2] # PAGE_TYPE_FINAL => chunk + 1 < MaxChunks
                    /\ jpeg_buf' = buf
                    /\ rxChunks' = Append(rxChunks, <<r[2], r[3]>>)
                    /\ awaiting' = FALSE
                    /\ owed' = owed - 1
                    /\ IF r[2] = PAGE_TYPE_FINAL
                       THEN /\ pages' = AppendPage(pages, physical_sheet, side_idx, buf)
                            /\ spc' = IF onPage THEN "on_page" ELSE "meta"
                            /\ UNCHANGED chunk
                       ELSE /\ chunk' = chunk + 1
                            /\ UNCHANGED <<pages, spc>>
                    /\ UNCHANGED <<exc, link>>
    /\ UNCHANGED callVars
    /\ UNCHANGED <<cfgDuplex, cfgBleed, physical_sheet, transfer_sheet, side_idx,
                   returned, lastReq, conn, endSent, endFailed>>
    /\ UNCHANGED <<facadeVars, codecVars, utilVars>>

\* if on_page: await on_page(physical_sheet, side_idx, jpeg_data); the
\* callback of scan_to_files writes a file and may fail with OSError
OnPage ==
    /\ spc = "on_page"
    /\ called' = Append(called, pages[Len(pages)])
    /\ \E raises \in BOOLEAN :
          IF raises
          THEN ScanRaise("OSError", "on_page")
          ELSE /\ spc' = "meta"
               /\ UNCHANGED <<exc, awaiting>>
    /\ UNCHANGED <<cfgDuplex, cfgBleed, physical_sheet, transfer_sheet, side_idx,
                   chunk, jpeg_buf, pages, returned, lastReq, conn, endSent,
                   endFailed, link, rxChunks, dcall, onPage, owed, opened, sent,
                   metaSent, lastResp>>
    /\ UNCHANGED <<facadeVars, codecVars, utilVars>>

\* a client that asks for the status where the metadata request belongs
MetaWrite_Status == ReqWrite("meta", <<"status">>)

\* page metadata after each transfer sheet
MetaWrite == ReqWrite("meta", <<"meta">>)

\* the metadata response, transfer_sheet += 1, then the next side or the end
\* of the for loop
MetaRead ==
    /\ spc = "meta"
    /\ awaiting
    /\ \E r \in {"ok", "eof", "reset"} :
          /\ ReadBack(<<r>>, r = "ok")
          /\ IF r = "ok"
             THEN /\ awaiting' = FALSE
                  /\ transfer_sheet' = NextTransferSheet(transfer_sheet)
                  /\ IF side_idx + 1 < SidesPerSheet
                     THEN /\ side_idx' = side_idx + 1
                          /\ chunk' = 0
                          /\ jpeg_buf' = <<>>
                          /\ rxChunks' = <<>>
                          /\ spc' = "chunk"
                     ELSE /\ spc' = "status"
                          /\ UNCHANGED <<side_idx, chunk, jpeg_buf, rxChunks>>
                  /\ UNCHANGED <<exc, link>>
             ELSE /\ ScanRaise("ConnectionError", "meta")
                  /\ link' = r
                  /\ UNCHANGED <<transfer_sheet, side_idx, chunk, jpeg_buf, rxChunks>>
    /\ UNCHANGED callVars
    /\ UNCHANGED <<cfgDuplex, cfgBleed, physical_sheet, pages, returned, lastReq,
                   conn, endSent, endFailed>>
    /\ UNCHANGED <<facadeVars, codecVars, utilVars>>

\* a client that waits for the next sheet without asking for the status
StatusWrite_Wait == ReqWrite("status", <<"wait">>)

\* after the sides of one physical sheet: get status
StatusWrite == ReqWrite("status", <<"status">>)

\* the status response at the end of a sheet: its content is only logged
StatusRead == ReqRead("status", "wait")

\* wait for the next physical sheet
WaitWrite == ReqWrite("wait", <<"wait">>)

\* the WaitForScan response inside the loop: non-zero ends the scan, zero (or
\* a response too short to hold the status) moves to the next physical sheet
WaitRead ==
    /\ spc = "wait"
    /\ awaiting
    /\ \E r \in {<<"eof">>, <<"reset">>, <<"short">>, <<"word", 0>>, <<"word", 1>>} :
          LET wait_status == WaitStatus(r) IN
          /\ ReadBack(r, r[1] \notin {"eof", "reset"})
          /\ IF r[1] \in {"eof", "reset"}
             THEN /\ ScanRaise("ConnectionError", "wait")
                  /\ link' = r[1]
                  /\ UNCHANGED <<physical_sheet, side_idx, chunk, jpeg_buf, rxChunks>>
             ELSE IF wait_status # 0
                  THEN /\ spc' = "end"
                       /\ awaiting' = FALSE
                       /\ UNCHANGED <<exc, link, physical_sheet, side_idx, chunk,
                                      jpeg_buf, rxChunks>>
                  ELSE /\ physical_sheet + 1 < MaxSheets
                       /\ physical_sheet' = physical_sheet + 1
                       /\ side_idx' = 0
                       /\ chunk' = 0
                       /\ jpeg_buf' = <<>>
                       /\ rxChunks' = <<>>
                       /\ spc' = "chunk"
                       /\ awaiting' = FALSE
                       /\ UNCHANGED <<exc, link>>
    /\ UNCHANGED callVars
    /\ UNCHANGED <<cfgDuplex, cfgBleed, transfer_sheet, pages, returned, lastReq,
                   conn, endSent, endFailed>>
    /\ UNCHANGED <<facadeVars, codecVars, utilVars>>

\* finally: the End-scan request is written; an error of drain is swallowed
EndWrite ==
    /\ spc = "end"
    /\ ~awaiting
    /\ lastReq' = <<"end">>
    /\ endSent' = TRUE
    /\ Written(<<"end">>)
    /\ UNCHANGED <<callVars, lastResp>>
    /\ \E ok \in BOOLEAN :
          IF ok
          THEN /\ link # "reset"
               /\ awaiting' = TRUE
               /\ UNCHANGED <<spc, exc, link, endFailed>>
          ELSE /\ exc' = AfterEndError(exc, "ConnectionError")
               /\ endFailed' = TRUE
               /\ link' = IF link = "up" THEN "reset" ELSE link
               /\ spc' = "close"
               /\ UNCHANGED awaiting
    /\ UNCHANGED <<cfgDuplex, cfgBleed, physical_sheet, transfer_sheet, side_idx,
                   chunk, jpeg_buf, pages, returned, conn, rxChunks>>
    /\ UNCHANGED <<facadeVars, codecVars, utilVars>>

\* finally: the End-scan response is read; an error of the read is swallowed
EndRead ==
    /\ spc = "end"
    /\ awaiting
    /\ awaiting' = FALSE
    /\ spc' = "close"
    /\ UNCHANGED callVars
    /\ \E r \in {"ok", "eof", "reset"} :
          /\ ReadBack(<<r>>, r = "ok")
          /\ IF r = "ok"
             THEN /\ link = "up"
                  /\ UNCHANGED <<exc, link, endFailed>>
             ELSE /\ exc' = AfterEndError(exc, "ConnectionError")
                  /\ endFailed' = TRUE
                  /\ link' = IF link = "up" THEN r ELSE link
    /\ UNCHANGED <<cfgDuplex, cfgBleed, physical_sheet, transfer_sheet, side_idx,
                   chunk, jpeg_buf, pages, returned, lastReq, conn, endSent,
                   rxChunks>>
    /\ UNCHANGED <<facadeVars, codecVars, utilVars>>

\* finally: writer.close(); await writer.wait_closed(), which hands over the
\* error a reset connection was lost with; then run_scan returns or re-raises
Close ==
    /\ spc = "close"
    /\ dcall = "run_scan"
    /\ conn' = "closed"
    /\ \E raises \in BOOLEAN :
          /\ raises => link = "reset"
          /\ exc' = IF raises THEN <<"ConnectionError", "close">> ELSE exc
          /\ spc' = IF raises \/ exc # NoExc THEN "failed" ELSE "return"
    /\ UNCHANGED <<cfgDuplex, cfgBleed, physical_sheet, transfer_sheet, side_idx,
                   chunk, jpeg_buf, pages, returned, lastReq, awaiting, endSent,
                   endFailed, link, rxChunks, callVars, owed, sent, metaSent,
                   lastResp>>
    /\ UNCHANGED <<facadeVars, codecVars, utilVars>>

\* scan_to_files: on_page saves the pages that have data, and the saved ones
\* are what it returns
Saved(cs) == SelectSeq(cs, LAMBDA p : Len(p[3]) > 0)

\* Scanner.scan: the pages of run_scan without the empty ones;
\* Scanner.scan_to_files: the pages on_page saved
ScanReturn ==
    /\ spc = "return"
    /\ returned' = IF onPage THEN Saved(called) ELSE FilterPages(pages)
    /\ spc' = "done"
    /\ UNCHANGED <<cfgDuplex, cfgBleed, physical_sheet, transfer_sheet, side_idx,
                   chunk, jpeg_buf, pages, exc, lastReq, awaiting, conn, endSent,
                   endFailed, link, rxChunks, callVars, owed, sent, metaSent,
                   lastResp>>
    /\ UNCHANGED <<facadeVars, codecVars, utilVars>>

\* the loop state of run_scan, which a single-shot method does not touch
loopVars == <<cfgDuplex, cfgBleed, physical_sheet, transfer_sheet, side_idx, chunk,
              jpeg_buf, pages, returned, endSent, endFailed, rxChunks>>

\* _request: reader, writer = await self._open()
RequestOpen ==
    /\ spc = "request"
    /\ \E o \in OpenOutcome :
          IF OpenError(o) = "none"
          THEN /\ conn' = "open"
               /\ opened' = opened + 1
               /\ spc' = "rq_write"
               /\ lastResp' = <<"welcome", Welcome(o)>>
               /\ UNCHANGED exc
          ELSE /\ exc' = <<OpenError(o), "open">>
               /\ spc' = "rq_failed"
               /\ conn' = IF o = "refused" THEN "none" ELSE "leaked"
               /\ opened' = IF o = "refused" THEN opened ELSE opened + 1
               /\ lastResp' = IF o = "refused" THEN lastResp
                              ELSE <<"welcome", Welcome(o)>>
    /\ UNCHANGED <<loopVars, lastReq, awaiting, link, dcall, onPage, called, owed,
                   sent, metaSent>>
    /\ UNCHANGED <<facadeVars, codecVars, utilVars>>

\* _request: writer.write(data); await writer.drain()
RequestWrite ==
    /\ spc = "rq_write"
    /\ ~awaiting
    /\ lastReq' = <<dcall>>
    /\ Written(<<dcall>>)
    /\ \E ok \in BOOLEAN :
          IF ok
          THEN /\ awaiting' = TRUE
               /\ spc' = "rq_read"
               /\ UNCHANGED <<exc, link>>
          ELSE /\ exc' = <<"ConnectionError", "request">>
               /\ link' = "reset"
               /\ spc' = "rq_close"
               /\ UNCHANGED awaiting
    /\ UNCHANGED <<loopVars, conn, callVars, lastResp>>
    /\ UNCHANGED <<facadeVars, codecVars, utilVars>>

\* _request: the length prefix and the rest of the one response
RequestRead ==
    /\ spc = "rq_read"
    /\ awaiting
    /\ awaiting' = FALSE
    /\ spc' = "rq_close"
    /\ \E r \in {"ok", "eof", "reset"} :
          /\ ReadBack(<<r>>, r = "ok")
          /\ IF r = "ok"
             THEN UNCHANGED <<exc, link>>
             ELSE /\ exc' = <<"ConnectionError", "request">>
                  /\ link' = r
    /\ UNCHANGED <<loopVars, lastReq, conn, callVars>>
    /\ UNCHANGED <<facadeVars, codecVars, utilVars>>

\* a _request that returns with its connection still open
RequestClose_Leaves ==
    /\ spc = "rq_close"
    /\ spc' = IF exc # NoExc THEN "rq_failed" ELSE "rq_done"
    /\ UNCHANGED <<loopVars, lastReq, awaiting, link, callVars, owed, sent,
                   metaSent, lastResp, conn, exc>>
    /\ UNCHANGED <<facadeVars, codecVars, utilVars>>

\* _request: finally: writer.close(); await writer.wait_closed(); then the
\* response is returned or the error goes to the caller
RequestClose ==
    /\ spc = "rq_close"
    /\ conn' = "closed"
    /\ \E raises \in BOOLEAN :
          /\ raises => link = "reset"
          /\ exc' = IF raises THEN <<"ConnectionError", "close">> ELSE exc
          /\ spc' = IF raises \/ exc # NoExc THEN "rq_failed" ELSE "rq_done"
    /\ UNCHANGED <<loopVars, lastReq, awaiting, link, callVars, owed, sent,
                   metaSent, lastResp>>
    /\ UNCHANGED <<facadeVars, codecVars, utilVars>>

ScanNext ==
    \/ ScanOpen
    \/ GetSettingsWrite
    \/ GetSettingsRead
    \/ SetConfigWrite
    \/ SetConfigRead
    \/ ToneCurveWrite
    \/ ToneCurveRead
    \/ PrepareWrite
    \/ PrepareRead
    \/ Status0Write
    \/ Status0Read
    \/ Wait0Write
    \/ Wait0Read
    \/ ChunkWrite
    \/ ChunkRead
    \/ OnPage
    \/ MetaWrite
    \/ MetaRead
    \/ StatusWrite
    \/ StatusRead
    \/ WaitWrite
    \/ WaitRead
    \/ EndWrite
    \/ EndRead
    \/ Close
    \/ ScanReturn
    \/ RequestOpen
    \/ RequestWrite
    \/ RequestRead
    \/ RequestClose


-----------------------------------------------------------------------------
(* Specifications *)

Init == FacadeInit /\ ScanOff /\ CodecOff /\ UtilOff
Next == FacadeNext
-----------------------------------------------------------------------------
(* Decoding of the Reserve response and the decoder calls: session.py, packets.py *)

\* try_configure: struct.unpack_from("!i", resp, 8) raises struct.error when
\* resp ends before +12; nothing else of resp is looked at
ReserveDecode(resp) ==
    IF BLen(resp) < 12 THEN UnpackError("struct.error")
    ELSE <<"value", Accepted(Signed32(Slice(resp, 8, 12)))>>

\* the result of decoder k on data
Decode(k, data) ==
    CASE k = "BroadcastAdvertisement" -> BroadcastAdvertisementUnpack(data)
      [] k = "DeviceInfo" -> DeviceInfoResult(data)
      [] k = "EventNotification" -> EventNotificationUnpack(data)
      [] k = "WelcomePacket" -> WelcomePacketUnpack(data)
      [] k = "StatusResponse" -> StatusResponseUnpack(data)
      [] k = "PageHeader" -> PageHeaderUnpack(data)
      [] k = "Reserve" -> ReserveDecode(data)

UnpackInit ==
    /\ upc = "new"
    /\ u_kind \in UnpackKinds
    /\ \E n \in InputLengths(u_kind), tag \in InputTags, w \in InputWords :
          u_data = Input(u_kind, n, tag, w)
    /\ u_out = <<"none">>

\* one call of decoder k
UnpackCall(k) ==
    /\ upc = "new"
    /\ u_kind = k
    /\ u_out' = Decode(k, u_data)
    /\ upc' = "done"
    /\ UNCHANGED <<u_kind, u_data>>
    /\ UNCHANGED <<facadeVars, scanVars, codecVars, wireVars, idVars, findVars>>

UnpackNext ==
    \/ UnpackCall("BroadcastAdvertisement")
    \/ UnpackCall("DeviceInfo")
    \/ UnpackCall("EventNotification")
    \/ UnpackCall("WelcomePacket")
    \/ UnpackCall("StatusResponse")
    \/ UnpackCall("PageHeader")
    \/ UnpackCall("Reserve")

-----------------------------------------------------------------------------
(* Specifications *)

Spec == Init /\ [][Next]_vars

ScanSpecInit == FacadeInit /\ (ScanInit \/ RequestInit) /\ CodecOff /\ UtilOff
ScanSpec == ScanSpecInit /\ [][ScanNext]_vars

\* the scan run with the event loop resuming the task whenever the step it
\* waits for can be taken: a write that can go out, a response (or the end of
\* the stream) that has arrived
ScanFairSpec == ScanSpecInit /\ [][ScanNext]_vars /\ WF_vars(ScanNext)

CodecSpecInit == FacadeInit /\ ScanOff /\ CodecInit /\ UtilOff
CodecSpec == CodecSpecInit /\ [][CodecNext]_vars

WireSpecInit == FacadeInit /\ ScanOff /\ CodecOff /\ WireInit /\ IdentityOff /\ FindOff /\ UnpackOff
WireSpec == WireSpecInit /\ [][WireNext]_vars

IdentitySpecInit == FacadeInit /\ ScanOff /\ CodecOff /\ WireOff /\ IdentityInit /\ FindOff /\ UnpackOff
IdentitySpec == IdentitySpecInit /\ [][IdentityNext]_vars

FindSpecInit == FacadeInit /\ ScanOff /\ CodecOff /\ WireOff /\ IdentityOff /\ FindInit /\ UnpackOff
FindSpec == FindSpecInit /\ [][FindNext]_vars

UnpackSpecInit == FacadeInit /\ ScanOff /\ CodecOff /\ WireOff /\ IdentityOff /\ FindOff /\ UnpackInit
UnpackSpec == UnpackSpecInit /\ [][UnpackNext]_vars


-----------------------------------------------------------------------------
(* The claims *)

RECURSIVE Dedup(_)
\* a sequence without the repetitions of an element right after itself (the
\* attempts of one retried probe count as one step)
Dedup(s) ==
    IF Len(s) <= 1 THEN s
    ELSE IF s[1] = s[2] THEN Dedup(Tail(s))
    ELSE <<s[1]>> \o Dedup(Tail(s))

IsPrefix(s, t) == Len(s) <= Len(t) /\ \A i \in 1..Len(s) : s[i] = t[i]

WithoutDiscovery(s) == SelectSeq(s, LAMBDA x : x # "discovery")

RECURSIVE Flatten(_)
\* the concatenation of the payloads of a sequence of <<page-type, payload>>
Flatten(cs) == IF cs = <<>> THEN <<>> ELSE cs[1][2] \o Flatten(Tail(cs))

NoTaskRunning == \A t \in 1..MaxTasks : tasks[t] # "running"

\* C1: when the Reserve response read by pair() carries a non-zero signed
\* status, pair() has failed with pairing-rejected, no heartbeat task runs,
\* nothing but the discovery and the Reserve was sent, and the scanner is not
\* marked connected.
C1_PairRejected ==
    (op = "pair" /\ rstatus # <<>> /\ rstatus[1] # 0) =>
        /\ pc = "lost"
        /\ err = "PairingRejected"
        /\ NoTaskRunning
        /\ hbTask = 0
        /\ \A i \in 1..Len(steps) : steps[i] \in {"discovery", "Reserve"}
        /\ ~connected

C1_Witness ==
    op = "pair" /\ rstatus = <<-1>> /\ err = "PairingRejected" /\ pc = "lost"

\* C2 (as claimed): in connect() a Reserve response with a non-zero status
\* makes connect() fail as a rejection: no data-channel probe follows and the
\* scanner is not marked connected by that connect().
C2_ConnectRejectsNonZero ==
    (op = "connect" /\ rstatus # <<>> /\ rstatus[1] # 0) =>
        /\ pc = "idle"
        /\ err = "PairingRejected"
        /\ \A i \in 1..Len(steps) : steps[i] # "get_device_info"

C5_DisconnectSwallows ==
    (op = "disconnect" /\ pc = "idle" /\ relErr # "none") =>
        /\ err = "none"
        /\ hbTask = 0
        /\ NoTaskRunning
        /\ ~connected

\* the order of connect() as claimed, GetWifiStatus last
ClaimedConnectOrder ==
    <<"start_heartbeat", "Reserve", "get_device_info", "get_scan_params",
      "set_config", "GetWifiStatus">>

\* the order of connect() in the code
ConnectOrder ==
    <<"start_heartbeat", "Reserve", "get_device_info", "GetWifiStatus",
      "get_scan_params", "set_config">>

\* C6 (as claimed): connect() goes through discovery, start heartbeat,
\* Reserve, get_device_info, get_scan_params, set config and GetWifiStatus in
\* this order.
C6_ConnectOrderClaimed ==
    op = "connect" =>
        /\ IsPrefix(WithoutDiscovery(Dedup(steps)), ClaimedConnectOrder)
        /\ \A i \in 2..Len(steps) : steps[i] # "discovery"

\* C6 (amended): connect() goes through discovery (only when none was done
\* for this Scanner), start heartbeat, Reserve, get_device_info,
\* GetWifiStatus, get_scan_params and set config in this order; a request is
\* written only when the response of the one before it was read, and a
\* connect() that succeeds has gone through all of them.
C6_ConnectOrder ==
    op = "connect" =>
        /\ IsPrefix(WithoutDiscovery(Dedup(steps)), ConnectOrder)
        /\ \A i \in 2..Len(steps) : steps[i] # "discovery"
        /\ inflight # "none" => (steps # <<>> /\ steps[Len(steps)] = inflight)
        /\ (pc = "idle" /\ err = "none") =>
              WithoutDiscovery(Dedup(steps)) = ConnectOrder

C6_Witness ==
    /\ op = "connect" /\ pc = "idle" /\ err = "none" /\ connected
    /\ steps[1] = "discovery"
    /\ Len(steps) > Len(ConnectOrder) + 1

\* a scan run is over: it returned or raised
ScanOver == spc \in {"return", "done", "failed"}

\* C4: a scan run (run_scan) whose connection was opened writes an End-scan request on
\* it before it closes it, on every exit path, and it always closes it; an
\* error of the End-scan request never becomes the error in flight.
C4_EndScanBeforeClose ==
    /\ (dcall = "run_scan" /\ conn = "closed") => endSent
    /\ (ScanOver /\ conn \notin {"none", "leaked"}) => (conn = "closed" /\ endSent)
    /\ exc[2] # "end"
    /\ (endFailed /\ spc = "done") => exc = NoExc

C4_Witness ==
    /\ spc = "failed" /\ exc = <<"PageTransfer", "chunk">>
    /\ conn = "closed" /\ endSent /\ endFailed

\* C7: a page-transfer request for side s of physical sheet p carries
\* transfer_sheet = p * sides_per_sheet + s, and once all sides of sheet p
\* are transferred the counter is (p + 1) * sides_per_sheet.
C7_TransferSheet ==
    /\ (awaiting /\ lastReq[1] = "page") =>
          /\ lastReq[2] = (physical_sheet * SidesPerSheet) + side_idx
          /\ transfer_sheet = lastReq[2]
    /\ spc \in {"status", "wait"} =>
          transfer_sheet = (physical_sheet + 1) * SidesPerSheet

C7_Witness ==
    /\ awaiting /\ lastReq[1] = "page" /\ cfgDuplex
    /\ physical_sheet = 1 /\ side_idx = 1 /\ lastReq[2] = 3

\* C8: the bytes emitted for a side are the payloads of the chunks received
\* for that side, in receipt order, from chunk 0 up to and including the
\* first chunk of page-type 2; while a side is in transfer the buffer holds
\* the payloads received so far.
C8_ChunkConcat ==
    /\ spc \in {"meta", "status", "wait"} =>
          /\ pages # <<>>
          /\ pages[Len(pages)][3] = Flatten(rxChunks)
          /\ rxChunks # <<>>
          /\ rxChunks[Len(rxChunks)][1] = PAGE_TYPE_FINAL
          /\ \A i \in 1..(Len(rxChunks) - 1) : rxChunks[i][1] # PAGE_TYPE_FINAL
    /\ spc = "chunk" =>
          /\ jpeg_buf = Flatten(rxChunks)
          /\ Len(rxChunks) = chunk
          /\ \A i \in 1..Len(rxChunks) : rxChunks[i][1] # PAGE_TYPE_FINAL

C8_Witness ==
    /\ spc = "meta" /\ Len(rxChunks) = 2 /\ transfer_sheet = 1
    /\ Len(pages[Len(pages)][3]) = 2

\* the places of the non-empty pages
NonEmptyIdx(ps) == {i \in 1..Len(ps) : ps[i][3] # <<>>}

\* C9: the emitted pages start at physical sheet 0, their sheet indices never
\* decrease, the front of a sheet comes before its back, and scan() returns
\* the emitted pages with a non-empty payload, unchanged and in emission
\* order, and nothing else.
C9_PagesOrdered ==
    /\ pages # <<>> => pages[1][1] = 0
    /\ \A i, j \in 1..Len(pages) :
          i < j => /\ pages[i][1] <= pages[j][1]
                   /\ pages[i][1] = pages[j][1] => (pages[i][2] = 0 /\ pages[j][2] = 1)
    /\ \A i \in 1..Len(pages) : pages[i][2] \in 0..(SidesPerSheet - 1)
    /\ spc = "done" =>
          /\ Len(returned) = Cardinality(NonEmptyIdx(pages))
          /\ \A i \in NonEmptyIdx(pages) :
                returned[Cardinality({j \in NonEmptyIdx(pages) : j <= i})] = pages[i]

C9_Witness ==
    /\ spc = "done" /\ cfgDuplex /\ Len(pages) = 4
    /\ Len(returned) = 2 /\ returned[1][1] = 0 /\ returned[2] = pages[4]

\* C10 (as claimed): decoding the config block of an encoded ScanConfig gives
\* back the ScanConfig, field for field.
C10_RoundTrip ==
    cpc = "unpacked" => decoded = cfg

\* C11: every request a pack() of the client returns starts with its own
\* total length as a big-endian 32-bit integer at bytes 0..4, followed by
\* "VENS" at bytes 4..8.
C11_Framing ==
    wpc = "encoded" =>
        /\ BLen(wire) >= 8
        /\ GetU32(wire, 0) = BLen(wire)
        /\ Slice(wire, 4, 8) = MAGIC

C11_Witness ==
    /\ wpc = "encoded" /\ wreq.kind = "Reserve" /\ Len(wreq.identity) = 50
    /\ BLen(wire) = 384 /\ wire[2] = 1 /\ wire[3] = 128

\* C12: every packet sent for a Scanner, on any channel (discovery datagrams,
\* heartbeats, control-channel and data-channel requests), carries one and
\* the same token in its token field, and that token is Scanner.token, from
\* the discovery on and through disconnect().
C12_OneToken ==
    /\ Cardinality(sentTok) <= 1
    /\ self_token # <<>> => sentTok \subseteq {self_token}

C12_Witness ==
    /\ op = "connect" /\ pc = "idle" /\ err = "none" /\ connected
    /\ steps[1] = "discovery" /\ beats > 0
    /\ sentTok = {self_token} /\ self_token \in Tokens

\* the number a run of decimal digits denotes
RECURSIVE NumVal(_)
NumVal(ds) ==
    IF ds = <<>> THEN 0 ELSE (10 * NumVal(SubSeq(ds, 1, Len(ds) - 1))) + (ds[Len(ds)] - 48)

\* how many digits the decimal representation of n has
Width(n) == IF n < 10 THEN 1 ELSE IF n < 100 THEN 2 ELSE IF n < 1000 THEN 3 ELSE 4

\* the value each position of the password contributes
IdValue(i) == id_password[i] + IDENTITY_KEY[i] + 11

\* where the digits of position i start in the identity (1-based)
RECURSIVE IdStart(_)
IdStart(i) == IF i = 1 THEN 1 ELSE IdStart(i - 1) + Width(IdValue(i - 1))

\* C13: for a password of at most 16 characters compute_identity returns the
\* decimal numerals of ord(password[i]) + ord(KEY[i]) + 11, position by
\* position and nothing else ("0700" gives "171136176174"); for a longer
\* password it raises the password-too-long error and returns no identity.
C13_Identity ==
    /\ (ipc \in {"returned", "raised"} /\ Len(id_password) <= 16) =>
        /\ ipc = "returned" /\ id_err = "none"
        /\ \A i \in 1..Len(id_password) :
              LET g == SubSeq(id_result, IdStart(i), IdStart(i) + Width(IdValue(i)) - 1)
              IN  /\ Len(g) = Width(IdValue(i))
                  /\ \A k \in 1..Len(g) : g[k] \in 48..57
                  /\ g[1] # 48
                  /\ NumVal(g) = IdValue(i)
        /\ Len(id_result) = IdStart(Len(id_password) + 1) - 1
        /\ id_password = <<48, 55, 48, 48>> =>
              id_result = <<49, 55, 49, 49, 51, 54, 49, 55, 54, 49, 55, 52>>
    /\ (ipc \in {"returned", "raised"} /\ Len(id_password) > 16) =>
        /\ ipc = "raised" /\ id_err = "ValueError: Password too long"
        /\ id_result = <<>>

C13_Witness ==
    /\ ipc = "returned" /\ id_password = <<48, 55, 48, 48>>
    /\ id_result = <<49, 55, 49, 49, 51, 54, 49, 55, 54, 49, 55, 52>>

\* the requests connect() and pair() send through _data_request_with_retry
ProbeRequests == {"get_device_info", "get_scan_params", "set_config"}

\* C14: a data-channel probe of connect() or pair() is attempted at most
\* three times; it returns on the first attempt that succeeds; it has slept
\* 2 s once for every attempt but the last, and not after the last; it raises
\* a connection error only when the third attempt failed, and any other error
\* at the attempt that met it. Control-channel requests and scan() never go
\* through the retry loop: a control request is written at most once in an
\* operation.
C14_Retry ==
    /\ attempt \in 0..2
    /\ probe.tries \in 0..3
    /\ probe.end # "raised" => probe.last \in {"none", "ConnectionError", "OSError"}
    /\ probe.end = "running" =>
          /\ probe.slept = 2 * attempt
          /\ probe.tries = (IF inflight = "none" THEN attempt ELSE attempt + 1)
          /\ pc \in {"p_devinfo", "p_params", "c_devinfo", "c_params", "c_config"}
    /\ probe.end = "returned" =>
          /\ probe.tries >= 1
          /\ probe.slept = 2 * (probe.tries - 1)
          /\ err = "none" /\ attempt = 0
    /\ probe.end = "raised" =>
          /\ probe.tries >= 1
          /\ probe.slept = 2 * (probe.tries - 1)
          /\ err = probe.last
          /\ probe.last \in {"ConnectionError", "OSError"} => probe.tries = 3
          /\ pc \in {"idle", "lost"}
    /\ (inflight # "none" /\ inflight \notin ProbeRequests) => probe = NoProbe
    /\ op \in {"scan", "disconnect"} => (probe = NoProbe /\ attempt = 0)
    /\ \A i, j \in 1..Len(steps) :
          (i < j /\ steps[i] = steps[j]) => steps[i] \in ProbeRequests

C14_Witness ==
    /\ op = "connect" /\ pc = "c_status" /\ inflight = "none"
    /\ probe = [tries |-> 3, slept |-> 4, last |-> "OSError", end |-> "returned"]

\* C15 (as claimed): once a discovery of the session has received a
\* Device-Info datagram, every TCP connection opened afterwards goes to the
\* data port and the control port that datagram advertises.
C15_AdvertisedPorts ==
    advertised # <<>> =>
        \A c \in tcpPorts :
            c[2] = (IF c[1] = "data" THEN advertised[1].data_port
                    ELSE advertised[1].control_port)

\* C16 (as claimed): once the stop_heartbeat() of disconnect() has returned,
\* no heartbeat task of the session is running, so that no heartbeat can be
\* sent any more, and no heartbeat socket is open.
C16_StopEndsHeartbeat ==
    (op = "disconnect" /\ pc = "idle" /\ err = "none") =>
        /\ hbTask = 0 /\ hbSock = 0
        /\ NoTaskRunning
        /\ \A k \in 1..MaxTasks : socks[k] # "open"

\* C17 (as claimed): a send error on the heartbeat socket does not end the
\* heartbeat: no heartbeat task ends on a send error, a task leaves the
\* running state only by being cancelled.
C17_SendErrorTolerated ==
    \A t \in 1..MaxTasks : tasks[t] \in {"unborn", "running", "cancelled"}

\* the datagrams of f_rx that are a valid Device-Info: at least 132 bytes
\* with the tag VENS
ValidAt == {i \in 1..Len(f_rx) : f_rx[i] \in {"info", "infoLong"}}

FirstValid == CHOOSE i \in ValidAt : \A j \in ValidAt : i <= j

\* the ports and the paired flag the datagrams of each valid kind carry
Carried(k) ==
    IF k = "info"
    THEN [paired |-> TRUE, data_port |-> 53218, control_port |-> 53219]
    ELSE [paired |-> FALSE, data_port |-> 40000, control_port |-> 40001]

\* C18 (as claimed): find_scanner returns the first valid Device-Info
\* received, whatever acks and malformed datagrams came before it and
\* whatever valid datagrams came after it; it fails only when no valid
\* Device-Info was received, with the timeout if it came to wait for one; and
\* whichever way it ends, its socket is closed.
C18_FindScanner ==
    /\ fpc = "returned" =>
          /\ ValidAt # {}
          /\ f_result = <<Carried(f_rx[FirstValid])>>
          /\ f_err = "none"
    /\ fpc = "raised" =>
          /\ ValidAt = {}
          /\ f_result = <<>>
          /\ f_err \in {"TimeoutError", "CancelledError", "OSError"}
          /\ f_err = "OSError" => f_rx = <<>>
    /\ fpc = "waiting" => (f_future = <<>> <=> ValidAt = {})
    /\ fpc \in {"returned", "raised"} => f_sock = "closed"

\* the order of pair() in the code
PairOrder ==
    <<"discovery", "Reserve", "start_heartbeat", "get_device_info", "get_scan_params",
      "GetWifiStatus", "Register">>

\* C19: pair() goes on after its Reserve only when the Reserve was accepted,
\* and then through start heartbeat, get_device_info, get_scan_params,
\* GetWifiStatus and Register in this order, each request written when the
\* response of the one before it was read; the scanner is marked connected
\* when the acknowledgement of the Register has been read, not before, and a
\* pair() that returns has gone through all of these steps.
C19_PairOrder ==
    op = "pair" =>
        /\ IsPrefix(Dedup(steps), PairOrder)
        /\ Len(Dedup(steps)) > 2 => (rstatus = <<0>> /\ reserved)
        /\ inflight # "none" => (steps # <<>> /\ steps[Len(steps)] = inflight)
        /\ connected =>
              /\ Dedup(steps) = PairOrder
              /\ inflight = "none" /\ pc = "idle" /\ err = "none"
        /\ (pc = "idle" /\ err = "none") => (connected /\ Dedup(steps) = PairOrder)

C19_Witness ==
    /\ op = "pair" /\ pc = "idle" /\ err = "none" /\ connected
    /\ Len(steps) > Len(PairOrder)
    /\ hbTask # 0 /\ tasks[hbTask] = "running"

\* C20: the Set-scan-settings packet is 192 bytes long, with a config block
\* of 128 bytes, exactly when the color mode is auto, the quality is auto and
\* the scan is duplex, and 144 bytes long, with a block of 80 bytes, for
\* every other configuration; the size written at +40 is the number of bytes
\* that follow +64.
C20_BlockSize ==
    cpc \in {"packed", "unpacked"} =>
        LET long == cfg.color_mode = 0 /\ cfg.quality = 0 /\ cfg.duplex IN
        /\ BLen(packet) = (IF long THEN 192 ELSE 144)
        /\ BLen(ConfigBlock(packet)) = (IF long THEN 128 ELSE 80)
        /\ GetU32(packet, 40) = BLen(ConfigBlock(packet))
        /\ GetU32(packet, 0) = BLen(packet)

C20_Witness ==
    /\ cpc = "packed" /\ BLen(packet) = 192 /\ packet[43] = 128
    /\ cfg.color_mode = 0 /\ cfg.quality = 0 /\ cfg.duplex /\ cfg.paper_size = 4

\* the offsets at which two packets of one length differ
Diff(p, q) == {i \in DOMAIN p : p[i] # q[i]}

\* the offsets of the packet that hold the given offsets of the config block
BlockOffsets(S) == {64 + k : k \in S}

\* the packet of the configuration with one flag toggled differs from the
\* packet of cfg exactly at the given block offsets
ToggleChanges(c2, S) ==
    LET q == ScanConfigPack(c2, tok)
    IN  /\ DOMAIN q = DOMAIN packet
        /\ Diff(packet, q) = BlockOffsets(S)

\* the three flags: multi-feed at +4 and +6, blank-page removal at +8,
\* bleed-through at +11
FlagEffects ==
    /\ ToggleChanges([cfg EXCEPT !.multi_feed = ~@], {4, 6})
    /\ ToggleChanges([cfg EXCEPT !.blank_page_removal = ~@], {8})
    /\ ToggleChanges([cfg EXCEPT !.bleed_through = ~@], {11})

\* C21 as claimed: changing exactly one field of the configuration changes
\* only the bytes of the block that the layout assigns to it: multi-feed +4
\* and +6, blank-page removal +8, bleed-through +11, and the density of a
\* black-and-white scan only +60, which holds 0x06 + density
C21_FrameEffect ==
    cpc = "packed" =>
        /\ FlagEffects
        /\ cfg.color_mode = BW =>
            /\ packet[64 + 60] = 6 + cfg.bw_density
            /\ \A d \in (0..10) \ {cfg.bw_density} :
                   ToggleChanges([cfg EXCEPT !.bw_density = d], {60})

\* C21 amended: as claimed for the three flags; changing the density of a
\* black-and-white scan changes only +60 (0x06 + density) when both
\* densities are non-zero, and +3 as well (0x02 for density 0, 0x00
\* otherwise) when one of them is 0
C21_FrameEffectAmended ==
    cpc = "packed" =>
        /\ FlagEffects
        /\ cfg.color_mode = BW =>
            /\ packet[64 + 60] = 6 + cfg.bw_density
            /\ packet[64 + 3] = (IF cfg.bw_density = 0 THEN 2 ELSE 0)
            /\ \A d \in (0..10) \ {cfg.bw_density} :
                   ToggleChanges([cfg EXCEPT !.bw_density = d],
                                 IF d = 0 \/ cfg.bw_density = 0 THEN {3, 60} ELSE {60})

\* a black-and-white configuration of density 0 has been packed
C21_Witness ==
    /\ cpc = "packed"
    /\ cfg.color_mode = BW
    /\ cfg.bw_density = 0
    /\ cfg.multi_feed
    /\ packet[64 + 3] = 2

\* C22 as claimed: on the scan-run connection and on every single-shot
\* connection the client never writes a request while the response to a
\* request written before on that connection has not been read in full, and
\* each request consumes exactly one response.
C22_Sequential ==
    /\ owed <= 1
    /\ awaiting => owed = 1

\* C22 amended: as long as no error has occurred the requests of a connection
\* are strictly sequential (a response is outstanding exactly while the
\* client reads it, and never more than one); a single-shot connection
\* carries one request; the one request written while a response is still
\* unread is the End-scan request of run_scan, after an error.
C22_SequentialAmended ==
    /\ (exc = NoExc /\ ~endFailed) => owed = (IF awaiting THEN 1 ELSE 0)
    /\ awaiting => owed >= 1
    /\ owed <= 2
    /\ owed = 2 => (dcall = "run_scan" /\ lastReq = <<"end">> /\ exc # NoExc)
    /\ dcall \in SingleShot => (owed <= 1 /\ sent \subseteq {dcall})

\* a scan run that got through a whole side, then met a page header without
\* the VENS tag, and wrote End-scan with the payload still unread
C22_Witness ==
    /\ dcall = "run_scan"
    /\ "meta" \in sent
    /\ exc = <<"ValueError", "chunk">>
    /\ lastReq = <<"end">>
    /\ owed = 2

\* the last read on the connection returned a status word with the given
\* request as the last one written, and nothing is outstanding
StatusWordRead(kind) ==
    /\ dcall = "run_scan"
    /\ lastReq = <<kind>>
    /\ owed = 0
    /\ lastResp[1] = "word"

\* C23: when the GetStatus response that follows Prepare has bit 0x80 set in
\* its scan-status, the scan run raises the no-paper error at once; no
\* WaitForScan and no page-transfer request has been or is written on the
\* connection, and no page is emitted to the caller or to on_page.
C23_NoPaper ==
    /\ (StatusWordRead("status") /\ "wait" \notin sent
            /\ (lastResp[2] \div 128) % 2 = 1) =>
          /\ exc = <<"NoPaper", "status0">>
          /\ spc = "end"
    /\ exc[1] = "NoPaper" =>
          /\ sent \cap {"wait", "page", "meta"} = {}
          /\ pages = <<>>
          /\ called = <<>>
          /\ returned = <<>>
          /\ spc \in {"end", "close", "failed"}

\* the run has failed for want of paper, End-scan sent, connection closed
C23_Witness ==
    /\ spc = "failed"
    /\ exc = <<"NoPaper", "status0">>
    /\ sent = {"get_settings", "set_config", "tone_curve", "prepare", "status", "end"}
    /\ conn = "closed"

\* C24: a non-zero status in the first WaitForScan response makes the scan
\* run raise the wait-failed error, with no page-transfer request written
\* and no page emitted; a non-zero status in a later WaitForScan response
\* is no error: it ends the page loop, and the run goes on to End-scan.
C24_WaitStatus ==
    /\ (StatusWordRead("wait") /\ "page" \notin sent /\ lastResp[2] # 0) =>
          /\ exc = <<"WaitFailed", "wait0">>
          /\ spc = "end"
    /\ exc[1] = "WaitFailed" =>
          /\ sent \cap {"page", "meta"} = {}
          /\ pages = <<>>
          /\ called = <<>>
          /\ returned = <<>>
          /\ spc \in {"end", "close", "failed"}
    /\ (StatusWordRead("wait") /\ "page" \in sent /\ lastResp[2] # 0) =>
          /\ exc = NoExc
          /\ spc = "end"
          /\ pages # <<>>
    /\ (StatusWordRead("wait") /\ "page" \in sent /\ lastResp[2] = 0) =>
          /\ exc = NoExc
          /\ spc = "chunk"

\* a later WaitForScan answered non-zero, and the run returned its pages
C24_Witness ==
    /\ spc = "done"
    /\ exc = NoExc
    /\ Len(pages) = 2
    /\ physical_sheet = 1
    /\ "wait" \in sent

\* the chunks of page-type 0 received so far for the side in transfer
ContinuationChunks == {i \in 1..Len(rxChunks) : rxChunks[i][1] = 0}

\* C25 as claimed: in chunk reassembly the chunk index starts at 0 for every
\* side, the loop stops exactly when a chunk of page-type 2 is received, and
\* the chunk index is the number of chunks of page-type 0 received for the
\* side: a chunk of any other page-type leaves it as it is.
C25_ChunkIndex ==
    /\ (spc = "chunk" /\ rxChunks = <<>>) => chunk = 0
    /\ spc = "chunk" =>
          /\ \A i \in 1..Len(rxChunks) : rxChunks[i][1] # PAGE_TYPE_FINAL
          /\ chunk = Cardinality(ContinuationChunks)
    /\ spc \in {"on_page", "meta"} =>
          /\ rxChunks # <<>>
          /\ rxChunks[Len(rxChunks)][1] = PAGE_TYPE_FINAL
          /\ chunk = Cardinality(ContinuationChunks)

\* the parameter bytes of the page-transfer request last written: the
\* request built from (sheet, chunk) by _transfer_page_chunks and packed by
\* PageTransferRequest.pack
PageRequestParams == PageTransferParams(PageNum(lastReq[2], lastReq[3]), lastReq[2])

\* C26: the page-transfer request written for transfer sheet t and chunk
\* index c carries page-number (t << 8) | c in the sixth parameter word and
\* page-flags 0x00800400 for an odd t, 0x00000400 for an even t, in the
\* fifth, for every t and c the page loop reaches.
C26_PageRequest ==
    (dcall = "run_scan" /\ lastReq[1] = "page" /\ awaiting) =>
        /\ lastReq[2] = transfer_sheet
        /\ lastReq[3] = chunk
        /\ Len(PageRequestParams) = 28
        /\ SubSeq(PageRequestParams, 21, 24) =
              <<0, transfer_sheet \div 256, transfer_sheet % 256, chunk>>
        /\ SubSeq(PageRequestParams, 17, 20) =
              (IF transfer_sheet % 2 = 1 THEN <<0, 128, 4, 0>> ELSE <<0, 0, 4, 0>>)

\* the second chunk of the back of the second sheet is being requested
C26_Witness ==
    /\ dcall = "run_scan" /\ lastReq[1] = "page" /\ awaiting
    /\ transfer_sheet = 3
    /\ chunk = 1
    /\ SubSeq(PageRequestParams, 17, 24) = <<0, 128, 4, 0, 0, 0, 3, 1>>

\* the <<sheet, side>> of every emitted page
PageKeys(ps) == [i \in 1..Len(ps) |-> <<ps[i][1], ps[i][2]>>]

\* no page is in the sequence twice
EmittedOnce(ps) ==
    \A i, j \in 1..Len(ps) : PageKeys(ps)[i] = PageKeys(ps)[j] => i = j

\* C27: when a page-transfer response announces a total length below 42 and
\* its remainder arrives, the client reads it to its end and the scan run
\* raises the page-transfer error; the buffer of the side in transfer is
\* emitted neither to the caller nor to on_page, and the pages emitted
\* before are the sides completed before, each one once.
C27_ShortResponse ==
    /\ (dcall = "run_scan" /\ lastReq[1] = "page" /\ lastResp[1] = "error"
            /\ lastResp[2] < 42 /\ lastResp[3]) =>
          /\ exc = <<"PageTransfer", "chunk">>
          /\ spc = "end"
          /\ owed = 0
    /\ exc[1] = "PageTransfer" =>
          /\ spc \in {"end", "close", "failed"}
          /\ returned = <<>>
          /\ Len(pages) = transfer_sheet
          /\ \A i \in 1..Len(pages) :
                PageKeys(pages)[i] # <<physical_sheet, side_idx>>
          /\ EmittedOnce(pages)
          /\ called = (IF onPage THEN pages ELSE <<>>)
          /\ EmittedOnce(called)

\* the back of the first sheet had one chunk in its buffer when the short
\* response came; the front had been handed to on_page
C27_Witness ==
    /\ exc = <<"PageTransfer", "chunk">>
    /\ spc = "failed"
    /\ onPage
    /\ Len(called) = 1
    /\ side_idx = 1
    /\ Len(jpeg_buf) = 1

SheetEndOrder ==
    /\ (spc = "status" /\ ~awaiting) =>
          /\ lastReq = <<"meta">>
          /\ side_idx = SidesPerSheet - 1
          /\ Len(pages) = (physical_sheet + 1) * SidesPerSheet
    /\ (spc = "status" /\ awaiting) => lastReq = <<"status">>
    /\ (spc = "wait" /\ ~awaiting) => (lastReq = <<"status">> /\ owed = 0)
    /\ (spc = "wait" /\ awaiting) => lastReq = <<"wait">>

\* the first page-transfer request of a sheet follows a WaitForScan request
PageAfterWait ==
    (lastReq'[1] = "page" /\ lastReq' # lastReq /\ side_idx' = 0 /\ chunk' = 0)
        => lastReq = <<"wait">>

\* what the WaitForScan response at the end of a sheet does
SheetEndWait ==
    (spc = "wait" /\ awaiting /\ ~awaiting' /\ lastResp'[1] \in {"short", "word"}) =>
        IF lastResp'[1] = "word" /\ lastResp'[2] # 0
        THEN /\ spc' = "end"
             /\ exc' = NoExc
             /\ physical_sheet' = physical_sheet
        ELSE /\ spc' = "chunk"
             /\ physical_sheet' = physical_sheet + 1
             /\ side_idx' = 0
             /\ chunk' = 0

\* physical_sheet moves nowhere else
SheetMovesAtWait ==
    physical_sheet' # physical_sheet => (spc = "wait" /\ awaiting)

\* C29: after all sides of a physical sheet the client writes GetStatus and,
\* after its response, WaitForScan, and no page-transfer request before both;
\* a non-zero status of that WaitForScan ends the page loop with
\* physical_sheet unchanged, any other complete response increments
\* physical_sheet by exactly one and the loop goes on with the first side of
\* the next sheet.
C29_SheetEnd ==
    /\ [](dcall = "run_scan" => SheetEndOrder)
    /\ [][PageAfterWait /\ SheetEndWait /\ SheetMovesAtWait]_vars

\* the second sheet is in transfer after a WaitForScan answered 0
C29_Witness ==
    /\ dcall = "run_scan"
    /\ physical_sheet = 1
    /\ lastReq[1] = "page"
    /\ awaiting
    /\ side_idx = 0
    /\ "status" \in sent

\* the positions of run_scan from its first request to the End-scan exchange
InRun ==
    {"get_settings", "set_config", "tone_curve", "prepare", "status0", "wait0",
     "chunk", "on_page", "meta", "status", "wait", "end", "close"}

\* the positions of _request between _open and the finally clause
InRequest == {"rq_write", "rq_read", "rq_close"}

\* every request is written on the open connection of the call
WrittenOnOpen == lastReq' # lastReq => (conn = "open" /\ conn' = "open" /\ opened = 1)

\* a call never opens a connection while it holds one
OpensOnce == opened' # opened => (conn = "none" /\ opened = 0 /\ opened' = 1)

\* C30: a scan run opens one TCP connection and writes all its requests on
\* it, from the first one to End-scan, and opens no other while it runs;
\* every single-shot method (get_device_info, get_scan_params,
\* get_scan_settings, set_config) starts without a connection, opens one,
\* writes its one request on it and has closed it when it returns.
C30_OneConnection ==
    /\ [] /\ opened <= 1
          /\ spc \in {"scan", "request"} => (conn = "none" /\ opened = 0 /\ sent = {})
          /\ spc \in (InRun \cup InRequest) => (conn = "open" /\ opened = 1)
          /\ sent # {} => opened = 1
          /\ spc \in {"return", "done"} =>
                (conn = "closed" /\ opened = 1 /\ "end" \in sent)
          /\ spc = "rq_done" =>
                (conn = "closed" /\ opened = 1 /\ sent = {dcall} /\ owed = 0)
          /\ (spc \in {"failed", "rq_failed"} /\ exc[2] \notin {"open", "button"}) =>
                (conn = "closed" /\ opened = 1)
    /\ [][WrittenOnOpen /\ OpensOnce]_vars

\* a set_config call has returned: its request went out on the one
\* connection it opened and the connection is closed
C30_Witness ==
    /\ dcall = "set_config"
    /\ spc = "rq_done"
    /\ conn = "closed"
    /\ opened = 1
    /\ lastReq = <<"set_config">>
    /\ lastResp = <<"ok">>

\* the request that follows each request of the start of a scan run
StartOrder ==
    {<<"none", "get_settings">>, <<"get_settings", "set_config">>,
     <<"prepare", "status">>, <<"status", "wait">>}
    \cup (IF cfgBleed
          THEN {<<"set_config", "tone_curve">>, <<"tone_curve", "prepare">>}
          ELSE {<<"set_config", "prepare">>})

\* a request is written while the run has not yet sent WaitForScan: it is the
\* next one of the start order, written after the response of the one before
\* it was read in full, or it is the End-scan request of the finally clause
StartStep ==
    (dcall = "run_scan" /\ lastReq' # lastReq /\ "wait" \notin sent) =>
        \/ lastReq' = <<"end">>
        \/ /\ <<lastReq[1], lastReq'[1]>> \in StartOrder
           /\ owed = 0

\* the first page-transfer request follows a WaitForScan response read in full
FirstPageStep ==
    (lastReq'[1] = "page" /\ "page" \notin sent) =>
        /\ lastReq = <<"wait">>
        /\ owed = 0
        /\ lastResp[1] \in {"short", "word"}
        /\ {"get_settings", "set_config", "prepare", "status", "wait"} \subseteq sent
        /\ ("tone_curve" \in sent) = cfgBleed

\* the sub-command and command bytes of the start requests built by packets.py
StartOpcodes ==
    /\ GetScanSettingsParams[13] = 216
    /\ PrepareScanParams[13] = 213
    /\ GET_STATUS = 10
    /\ WaitForScanParams[13] = 224
    /\ GET_SET = 6

\* C31: before the page loop a scan run writes get-settings, Set-scan-settings,
\* the tone-curve request if and only if the configuration enables
\* bleed-through, Prepare (0xD5), GetStatus (0x0A) and WaitForScan (0xE0), in
\* this order, each after the response of the one before; no page-transfer
\* request is written before WaitForScan has answered.
C31_StartOrder ==
    /\ [](StartOpcodes /\ ("page" \in sent => "wait" \in sent)
          /\ (("prepare" \in sent /\ dcall = "run_scan") =>
                 (("tone_curve" \in sent) = cfgBleed)))
    /\ [][StartStep /\ FirstPageStep]_vars

\* a run with bleed-through has written its first page-transfer request
C31_Witness ==
    /\ dcall = "run_scan"
    /\ cfgBleed
    /\ lastReq = <<"page", 0, 0, FALSE>>
    /\ awaiting
    /\ sent = {"get_settings", "set_config", "tone_curve", "prepare", "status",
               "wait", "page"}

\* an input with the wrong magic tag, or shorter than the decoder's minimum
Malformed(k, data) ==
    \/ BLen(data) < MinLength[k]
    \/ Slice(data, MagicOffset[k], MagicOffset[k] + 4) # MAGIC

\* C32: every decoder answers an input whose magic tag is not the expected one,
\* or whose length is below the minimum of its packet, with the malformed-packet
\* error (ValueError) and returns no decoded value from it
C32_Malformed ==
    (upc = "done" /\ Malformed(u_kind, u_data)) => u_out = UnpackError("ValueError")

\* the last thing read on the connection is a welcome of 16 bytes with the
\* tag at +4
WelcomeRead ==
    /\ lastResp[1] = "welcome"
    /\ BLen(lastResp[2]) = 16
    /\ Slice(lastResp[2], 4, 8) = MAGIC

\* a step that writes a request on the connection
WritesRequest == owed' > owed \/ sent' # sent

DiscoveryTargets ==
    IF f_ip # <<>> THEN <<f_ip>>
    ELSE <<<<255, 255, 255, 255>>, <<f_local[1], f_local[2], f_local[3], 255>>>>

\* C34: one discovery sends its requests in pairs, the VENS form and then the
\* ssNR form, to each target: to the given appliance address alone when one is
\* given, to the limited broadcast and the subnet broadcast otherwise; every
\* request carries the token of the discovery and flags = 0
C34_DiscoveryPairs ==
    /\ (fpc \in {"start", "send"} \/ f_err = "OSError") => f_sent = <<>>
    /\ (fpc \in {"waiting", "returned"}) => f_sent # <<>>
    /\ f_sent # <<>> =>
          /\ Len(f_sent) = 2 * Len(DiscoveryTargets)
          /\ \A i \in 1..Len(DiscoveryTargets) :
                /\ f_sent[(2 * i) - 1].to = <<DiscoveryTargets[i], 52217>>
                /\ f_sent[2 * i].to = <<DiscoveryTargets[i], 52217>>
                /\ Slice(f_sent[(2 * i) - 1].data, 0, 4) = <<86, 69, 78, 83>>
                /\ Slice(f_sent[2 * i].data, 0, 4) = <<115, 115, 78, 82>>
          /\ \A i \in 1..Len(f_sent) :
                /\ BLen(f_sent[i].data) = 32
                /\ Slice(f_sent[i].data, 12, 20) = f_token
                /\ Slice(f_sent[i].data, 4, 8) = <<0, 0, 0, 0>>

C34_Witness ==
    /\ fpc = "waiting"
    /\ f_ip = <<>>
    /\ Len(f_sent) = 4
    /\ f_sent[3].to = <<<<192, 168, 0, 255>>, 52217>>
    /\ f_sent[4].data[0] = 115

\* the heartbeat tasks that exist: created and neither cancelled nor ended
HeartbeatTasks == {t \in 1..MaxTasks : tasks[t] = "running"}

\* C35 (as claimed): whatever pair(), connect() and disconnect() calls were
\* made on the Scanner, at most one heartbeat task exists, and none is left
\* once disconnect() has returned
C35_OneHeartbeat ==
    /\ Cardinality(HeartbeatTasks) <= 1
    /\ (op = "disconnect" /\ pc = "idle" /\ err = "none") => HeartbeatTasks = {}

\* connect() or pair() has raised to its caller
ConnectOrPairFailed == op \in {"connect", "pair"} /\ pc \in {"idle", "lost"} /\ err # "none"

\* C36 (as claimed): when connect() or pair() has raised, no heartbeat task
\* is running and the client holds none: a step that fails after
\* start_heartbeat stops the heartbeat before the error reaches the caller
C36_FailureStopsHeartbeat ==
    ConnectOrPairFailed => (hbTask = 0 /\ HeartbeatTasks = {})

\* the call on the data channel is over: it has returned or raised
CallOver == spc \in {"done", "failed", "rq_done", "rq_failed"}

\* C37 (as claimed): when the call that opened a TCP connection is over, on
\* whatever path, the client has closed every connection it opened, the
\* paths where the welcome is cut short or carries a wrong tag included
C37_ClosedOnExit ==
    CallOver => (conn \in {"none", "closed"} /\ (opened > 0 => conn = "closed"))

\* C38 (as claimed): for a password of at most 16 characters the Reserve
\* request carries at +52 the whole identity compute_identity returned, and
\* nothing else up to the date at +100: it is neither cut nor replaced
C38_FullIdentity ==
    (ipc = "packed" /\ Len(id_password) <= 16) =>
        /\ 52 + Len(id_result) <= 100
        /\ Slice(id_wire, 52, 52 + Len(id_result)) = id_result
        /\ \A i \in (52 + Len(id_result))..99 : id_wire[i] = 0

\* C39 (as claimed): the scan run goes on from its GetStatus to WaitForScan
\* only when the response held the scan-status word with bit 0x80 clear, and a
\* page-transfer request written right after a WaitForScan response follows a
\* response that held the status word, equal to zero; a response too short for
\* the word is not taken for success
C39_StatusPresent ==
    /\ (dcall = "run_scan" /\ spc = "wait0" /\ lastReq = <<"status">> /\ owed = 0) =>
          (lastResp[1] = "word" /\ (lastResp[2] \div 128) % 2 = 0)
    /\ (dcall = "run_scan" /\ lastReq[1] = "page" /\ owed > 0
            /\ lastResp[1] \in {"short", "word"}) =>
          lastResp = <<"word", 0>>

\* the pages run_scan holds for physical sheet s
PagesOf(s) == {i \in 1..Len(pages) : pages[i][1] = s}

\* every sheet up to the current one has one page for each of its sides
WholeSheets ==
    /\ Len(pages) = SidesPerSheet * (physical_sheet + 1)
    /\ \A s \in 0..physical_sheet :
          /\ Cardinality(PagesOf(s)) = SidesPerSheet
          /\ {pages[i][2] : i \in PagesOf(s)} = 0..(SidesPerSheet - 1)

\* C40: with an appliance that answers every request, ends every side with a
\* chunk of page-type 2 and ends the scan with a non-zero WaitForScan status,
\* a scan run that has opened its connection comes to an end with End-scan
\* sent and the connection closed, and when it returns it holds exactly
\* sides_per_sheet pages for each physical sheet; the page loop is left
\* without an error only on a non-zero WaitForScan status, and a side only on
\* a chunk of page-type 2
C40_Terminates ==
    /\ (dcall = "run_scan" /\ conn = "open") ~>
          (conn = "closed" /\ endSent /\ spc \in {"done", "failed"})
    /\ []((dcall = "run_scan" /\ spc \in {"return", "done"}) =>
             (WholeSheets /\ endSent /\ conn = "closed" /\ exc = NoExc))
    /\ []((dcall = "run_scan" /\ spc = "end" /\ ~endSent /\ exc = NoExc) =>
             (/\ lastReq = <<"wait">>
              /\ lastResp[1] = "word" /\ lastResp[2] # 0
              /\ WholeSheets))
    /\ []((dcall = "run_scan" /\ spc \in {"on_page", "meta"} /\ lastResp[1] = "chunk") =>
             lastResp[2] = 2)

C40_Witness ==
    /\ dcall = "run_scan" /\ spc = "done"
    /\ cfgDuplex /\ physical_sheet = 1
    /\ Len(pages) = 4
    /\ endSent /\ conn = "closed"

=============================================================================
